---- MODULE Spec2Model ----
(***************************************************************************)
(* Incident tracker and incident lifecycle of pulsar-heartbeat             *)
(* (src/src/cfg/incident.go, PagerDuty path of the cfg package).           *)
(*                                                                         *)
(* Time is counted in ticks.  time.Now() has nanosecond resolution and     *)
(* each trackIncident call reads it under the tracker lock, so two calls   *)
(* never read the same instant: a tracking call consumes one tick.         *)
(***************************************************************************)
EXTENDS Integers, FiniteSets, Sequences, TLC

\* ------------------------------------------------------------------ bounds
TicksPerSecond == 2
MaxSteps == 5
MaxSysSteps == 3
MaxCeiling == 2
MaxInWindow == 2
MaxWindowSeconds == 1
MaxNegative == 1
MaxRequests == 1
MaxLookupSteps == 3
LookupStepMs == 500
MaxSamples == 38
MaxPayloads == 2
UnitsPerMs == 2
MaxWorkers == 2
MaxClients == 3
MaxTasks == 2
MaxPartitions == 2

\* --------------------------------------------------------------- constants
Second == TicksPerSecond
Minute == 60 * Second
DefaultWindowSeconds == 1
\* getOpsGenieAlertIDRetry, in milliseconds
RetryFirstWait == 200
RetryTimeout == 4000
\* the latency probes, in milliseconds
latencyBudget == 2400
LatencyBudgetMs == 2
\* StandardDeviation.Push
MinSamples == 10
SigmaFactor == 6

Comps == {"c1", "c2", "c3"}

\* AlertPolicyCfg values the configuration may hold
PolicySet ==
  [Ceiling : 0..MaxCeiling,
   MovingWindowSeconds : 0..MaxWindowSeconds,
   CeilingInMovingWindow : 0..MaxInWindow]

VARIABLES
  now,               \* the clock, in ticks
  incidentTrackers,  \* map component -> IncidentAlertPolicy
  incidents,         \* map component -> incidentRecord
  resolvers,         \* running getOpsGenieAlertIDRetry tasks
  nextRequest,       \* number of the next requestId the primary provider issues
  calls,             \* per goroutine: the call it is in and where
  config,            \* GetConfig(): K8sConfig.Enabled, OpsGenie key, PagerDuty key
  evalCfg,           \* the AlertPolicyCfg the tracker-level callers pass
  last,              \* the step that was just taken (observer)
  hist,              \* per component call history (observer)
  retry,             \* one getOpsGenieAlertIDRetry task, with its timing
  probe,             \* one probe loop: its sample bucket and its last run
  clients,           \* the package's client cache and the clients it handed out
  pubsub,            \* one PubSubLatency invocation: coordinator and consumer
  locks,             \* the two registry locks, the tasks at them, the chat alerts
  partition,         \* one TestPartitionTopic invocation and its consumer tasks
  metrics,           \* the metric maps, the Prometheus registry, the updating tasks
  calc               \* a function under evaluation: its arguments and its result

vars == <<now, incidentTrackers, incidents, resolvers, nextRequest, calls,
          config, evalCfg, last, hist, retry, probe, clients, pubsub,
          locks, partition, metrics, calc>>

\* the state of the tasks that are followed step by step in specifications
\* of their own
aux == <<retry, probe, clients, pubsub, locks, partition, metrics, calc>>

\* ------------------------------------------------------------ map helpers
MapPut(m, k, v) == [x \in (DOMAIN m) \cup {k} |-> IF x = k THEN v ELSE m[x]]
MapDelete(m, k) == [x \in (DOMAIN m) \ {k} |-> m[x]]
EmptyMap == [x \in {} |-> 0]

\* ---------------------------------------------------------------- tracker
TimeDuration(configV, defaultV, timeUnit) ==
  IF configV = 0 THEN defaultV * timeUnit ELSE configV * timeUnit

newPolicy(eval, at) ==
  [Entity |-> "",
   Counters |-> 0,
   EvalWindowSeconds |-> TimeDuration(eval.MovingWindowSeconds, DefaultWindowSeconds, Second),
   Alerts |-> {},
   LimitInWindow |-> eval.CeilingInMovingWindow,
   Limit |-> eval.Ceiling,
   LastUpdatedAt |-> at]

\* the tracker after an escalation
resetTracker(t) == [t EXCEPT !.Counters = 0, !.Alerts = {}]

inWindow_inclusive(t, at) == {v \in t.Alerts : at - v <= t.EvalWindowSeconds}
\* alerts of t that are still inside the evaluation window at instant at
inWindow(t, at) == {v \in t.Alerts : at - v < t.EvalWindowSeconds}

ceilingReached_late(t) == t.Limit > 0 /\ t.Counters > t.Limit
\* the consecutive-failure threshold
ceilingReached(t) == t.Limit > 0 /\ t.Counters >= t.Limit

\* the moving-window threshold
windowReached(t, windowCounts) == t.LimitInWindow > 0 /\ windowCounts >= t.LimitInWindow

\* IncidentAlertPolicy.report: the tracker afterwards, the returned flag and
\* whether the pre-alert was requested
report(t, component, at) ==
  LET t1 == [t EXCEPT !.LastUpdatedAt = at,
                      !.Entity = component,
                      !.Counters = @ + 1,
                      !.Alerts = @ \cup {at}]
  IN IF ceilingReached(t1)
       THEN [t |-> resetTracker(t1), rc |-> TRUE, verbose |-> FALSE]
       ELSE LET verbose == t1.Limit > 0 /\ t1.Counters + 1 >= t1.Limit
                kept == inWindow(t1, at)
                windowCounts == Cardinality(kept)
            IN IF windowReached(t1, windowCounts)
                 THEN [t |-> resetTracker(t1), rc |-> TRUE, verbose |-> verbose]
                 ELSE [t |-> [t1 EXCEPT !.Alerts = kept], rc |-> FALSE, verbose |-> verbose]

clear_dropAlerts(t) == [t EXCEPT !.Counters = @ - 1, !.Alerts = {}]
\* IncidentAlertPolicy.clear
clear(t) == [t EXCEPT !.Counters = @ - 1]

\* trackIncident: the registry afterwards and report's result
trackIncident(trackers, component, eval, at) ==
  LET t0 == IF component \in DOMAIN trackers THEN trackers[component]
            ELSE newPolicy(eval, at)
      r == report(t0, component, at)
  IN [trackers |-> MapPut(trackers, component, r.t), rc |-> r.rc, verbose |-> r.verbose]

\* the tracker half of ClearIncident
clearTracker(trackers, component) ==
  IF component \in DOMAIN trackers
    THEN LET t == clear(trackers[component])
         IN IF t.Counters = 0 THEN MapDelete(trackers, component)
            ELSE MapPut(trackers, component, t)
    ELSE trackers

\* ------------------------------------------------------ incident registry
NoAlertID == ""

\* the requests RemoveIncident sends for the record it found
closeRequests(record, cfg) ==
  IF record.alertID = NoAlertID THEN {}
  ELSE (IF cfg.genieKey # "" THEN {[to |-> "opsgenie", op |-> "close", id |-> record.alertID]}
        ELSE {})
       \cup
       (IF cfg.pdKey # "" THEN {[to |-> "pagerduty", op |-> "resolve", id |-> record.alertID]}
        ELSE {})

RemoveIncident_keepUnresolved(incs, component, cfg) ==
  [incidents |-> IF component \in DOMAIN incs /\ incs[component].alertID = NoAlertID
                   THEN incs ELSE MapDelete(incs, component),
   sent |-> IF component \in DOMAIN incs THEN closeRequests(incs[component], cfg) ELSE {}]
RemoveIncident_alwaysResolve(incs, component, cfg) ==
  [incidents |-> MapDelete(incs, component),
   sent |-> (IF component \in DOMAIN incs THEN closeRequests(incs[component], cfg) ELSE {})
            \cup (IF cfg.pdKey # "" THEN {[to |-> "pagerduty", op |-> "resolve", id |-> component]}
                  ELSE {})]
\* RemoveIncident: the registry afterwards and the provider requests sent
RemoveIncident(incs, component, cfg) ==
  [incidents |-> MapDelete(incs, component),
   sent |-> IF component \in DOMAIN incs THEN closeRequests(incs[component], cfg) ELSE {}]

\* ------------------------------------------------------------- observers
Elapsed(t) == (t \div Minute) + (t % Minute)

NoPolicy == [Ceiling |-> 0, MovingWindowSeconds |-> 0, CeilingInMovingWindow |-> 0]
NoHistory == [run |-> 0, esc |-> 0 - 1, fails |-> {}]

\* no provider answer belongs to the step
NoAnswer == [transport |-> FALSE, status |-> 0, json |-> FALSE]

Event(op, component) ==
  [op |-> op, comp |-> component, at |-> now, rc |-> FALSE, verbose |-> FALSE,
   sent |-> {}, run |-> 0 - 1, esc |-> 0 - 1, seen |-> {},
   create |-> FALSE, tracked |-> FALSE, eval |-> NoPolicy,
   answer |-> NoAnswer, err |-> FALSE]

\* history of component c after a trackIncident call that returned rc
histAfterTrack(h, rc, at) ==
  [run |-> IF h.run >= 0 THEN h.run + 1 ELSE h.run,
   esc |-> IF rc THEN 0 ELSE IF h.esc >= 0 THEN h.esc + 1 ELSE h.esc,
   fails |-> IF rc THEN {} ELSE h.fails \cup {at}]

\* history of component c after a ClearIncident call
histAfterClear(h, tracked) ==
  [run |-> IF tracked THEN 0 - 1 ELSE 0,
   esc |-> IF h.esc = 0 THEN 0 ELSE 0 - 1,
   fails |-> IF tracked THEN h.fails ELSE {}]

trackEvent(c, r, h) ==
  [Event("track", c) EXCEPT !.rc = r.rc, !.verbose = r.verbose,
                            !.run = IF h.run >= 0 THEN h.run + 1 ELSE h.run,
                            !.esc = IF h.esc >= 0 THEN h.esc + 1 ELSE h.esc,
                            !.seen = h.fails \cup {now}]

\* no resolver task is being followed
NoRetry == [pc |-> "none"]
\* no probe loop is being followed
NoProbe == [kind |-> "none"]
\* no client was built yet
NoClients ==
  [cache |-> <<>>, made |-> 0, uri |-> <<>>, closed |-> {}, users |-> <<>>]
\* no PubSubLatency invocation is being followed
NoPubSub == [pc |-> "none"]
\* nothing else is being followed
NoLocks == [pc |-> "none"]
NoPartition == [pc |-> "none"]
NoMetrics == [pc |-> "none"]
NoCalc == [fn |-> "none"]
restIdle ==
  /\ locks = NoLocks
  /\ partition = NoPartition
  /\ metrics = NoMetrics
  /\ calc = NoCalc
auxIdle ==
  /\ retry = NoRetry
  /\ probe = NoProbe
  /\ clients = NoClients
  /\ pubsub = NoPubSub
  /\ restIdle

\* ------------------------------------------- tracker-level specification
\* The calls the package's tests make: trackIncident and ClearIncident on a
\* component, one after the other, with one AlertPolicyCfg.
InitCommon ==
  /\ now = 0
  /\ incidentTrackers = EmptyMap
  /\ incidents = EmptyMap
  /\ resolvers = {}
  /\ nextRequest = 1
  /\ calls = [s \in {1} |-> [pc |-> "idle"]]
  /\ last = Event("init", "")
  /\ hist = [c \in Comps |-> NoHistory]
  /\ auxIdle

InitTrack ==
  /\ InitCommon
  /\ config = [K8sEnabled |-> FALSE, genieKey |-> "", pdKey |-> ""]
  /\ evalCfg \in PolicySet

TrackIncidentCall(c) ==
  /\ Elapsed(now) < MaxSteps
  /\ LET r == trackIncident(incidentTrackers, c, evalCfg, now)
     IN /\ incidentTrackers' = r.trackers
        /\ last' = trackEvent(c, r, hist[c])
        /\ hist' = [hist EXCEPT ![c] = histAfterTrack(@, r.rc, now)]
  /\ now' = now + 1
  /\ UNCHANGED aux
  /\ UNCHANGED <<incidents, resolvers, nextRequest, calls, config, evalCfg>>

ClearIncidentCall(c) ==
  /\ c \in DOMAIN incidentTrackers => incidentTrackers[c].Counters > 0 - MaxNegative
  /\ LET r == RemoveIncident(incidents, c, config)
         t == clearTracker(incidentTrackers, c)
     IN /\ incidents' = r.incidents
        /\ incidentTrackers' = t
        /\ last' = [Event("clear", c) EXCEPT !.sent = r.sent]
        /\ hist' = [hist EXCEPT ![c] = histAfterClear(@, c \in DOMAIN t)]
  /\ UNCHANGED aux
  /\ UNCHANGED <<now, resolvers, nextRequest, calls, config, evalCfg>>

Tick(d, limit) ==
  /\ Elapsed(now + d) <= limit
  /\ now' = now + d
  /\ last' = Event("step", "")
  /\ UNCHANGED aux
  /\ UNCHANGED <<incidentTrackers, incidents, resolvers, nextRequest, calls,
                 config, evalCfg, hist>>

TrackComps == {"c1", "c2"}

NextTrack ==
  \/ \E c \in TrackComps : TrackIncidentCall(c)
  \/ \E c \in TrackComps : ClearIncidentCall(c)
  \/ \E d \in {1, Minute} : Tick(d, MaxSteps)

SpecTrack == InitTrack /\ [][NextTrack]_vars

\* ------------------------------------------------- program specification
\* Probe goroutines call ReportIncident and ClearIncident concurrently; a
\* step is one critical section together with the requests made around it.
Slots == {1}

\* incident alias each call site passes for a component
AliasOf(c) == IF c = "c3" THEN "cluster3" ELSE c

\* the configured probes: the component each reports under and its policy
Probes ==
  {[comp |-> "c1", eval |-> [Ceiling |-> 0, MovingWindowSeconds |-> 0, CeilingInMovingWindow |-> 0]],
   [comp |-> "c1", eval |-> [Ceiling |-> 0, MovingWindowSeconds |-> 0, CeilingInMovingWindow |-> MaxInWindow]],
   [comp |-> "c1", eval |-> [Ceiling |-> 1, MovingWindowSeconds |-> 0, CeilingInMovingWindow |-> 0]],
   [comp |-> "c2", eval |-> [Ceiling |-> MaxCeiling, MovingWindowSeconds |-> 0, CeilingInMovingWindow |-> 0]],
   [comp |-> "c3", eval |-> [Ceiling |-> MaxCeiling, MovingWindowSeconds |-> MaxWindowSeconds, CeilingInMovingWindow |-> MaxInWindow]]}

RequestID(n) == "r" \o ToString(n)
\* the alertId the primary provider reports for a request
AlertIDOf(requestID) == "alert-" \o requestID

correlated_anyMode(trackers, cfg, at) ==
  Cardinality({c \in DOMAIN trackers : at - trackers[c].LastUpdatedAt < Minute}) > 2
\* ReportIncident, lines 191-204: several components failing near each other
correlated(trackers, cfg, at) ==
  LET count == IF cfg.K8sEnabled /\ Cardinality(DOMAIN trackers) > 2
                 THEN Cardinality({c \in DOMAIN trackers :
                                     at - trackers[c].LastUpdatedAt < Minute})
                 ELSE 0
  IN count > 2

\* where CreateIncident goes first, and after the primary provider
createEntry(cfg) ==
  IF cfg.genieKey # "" THEN "createOG"
  ELSE IF cfg.pdKey # "" THEN "createPD" ELSE "idle"
afterOpsGenie(cfg) == IF cfg.pdKey # "" THEN "createPD" ELSE "idle"

inCall(pc, c) == [pc |-> pc, comp |-> c]
Idle == [pc |-> "idle"]
startCreate(c) == IF createEntry(config) = "idle" THEN Idle ELSE inCall(createEntry(config), c)

\* the record CreateOpsGenieAlert stores
opsGenieRecord(requestID) == [requestID |-> requestID, alertID |-> NoAlertID]
\* the record CreatePDIncident stores
pagerDutyRecord(alias) == [requestID |-> alias, alertID |-> alias]
\* getOpsGenieAlertIDRetry, lines 364-370
storeAlertID(incs, entity, alertID) ==
  IF entity \in DOMAIN incs
    THEN MapPut(incs, entity, [incs[entity] EXCEPT !.alertID = alertID])
    ELSE incs

Init ==
  /\ InitCommon
  /\ config \in [K8sEnabled : BOOLEAN, genieKey : {"", "gk"}, pdKey : {"", "pk"}]
  /\ evalCfg = NoPolicy

\* ReportIncident with eval.Ceiling > 0: trackIncident (line 186)
ReportIncidentTrack(s, c, eval) ==
  /\ calls[s].pc = "idle"
  /\ eval.Ceiling > 0
  /\ Elapsed(now) < MaxSysSteps
  /\ LET r == trackIncident(incidentTrackers, c, eval, now)
     IN /\ incidentTrackers' = r.trackers
        /\ calls' = [calls EXCEPT ![s] = IF r.rc THEN startCreate(c)
                                         ELSE inCall("correlate", c)]
        /\ last' = [Event("report", c) EXCEPT !.tracked = TRUE, !.rc = r.rc,
                                              !.create = r.rc, !.eval = eval]
  /\ now' = now + 1
  /\ UNCHANGED aux
  /\ UNCHANGED <<incidents, resolvers, nextRequest, config, evalCfg, hist>>

\* ReportIncident with eval.Ceiling = 0: line 186 skips the tracker and the
\* call goes on to the correlation (lines 191-208)
ReportIncidentUntracked(s, c, eval) ==
  /\ calls[s].pc = "idle"
  /\ eval.Ceiling = 0
  /\ LET hit == correlated(incidentTrackers, config, now)
     IN /\ calls' = [calls EXCEPT ![s] = IF hit THEN startCreate(c) ELSE Idle]
        /\ last' = [Event("report", c) EXCEPT !.create = hit, !.eval = eval]
  /\ UNCHANGED aux
  /\ UNCHANGED <<now, incidentTrackers, incidents, resolvers, nextRequest, config,
                 evalCfg, hist>>

\* the correlation with a threshold of two trackers
Correlate_twoSuffice(s) ==
  /\ calls[s].pc = "correlate"
  /\ LET c == calls[s].comp
         hit == /\ config.K8sEnabled
                /\ Cardinality({k \in DOMAIN incidentTrackers :
                      now - incidentTrackers[k].LastUpdatedAt < Minute}) > 1
     IN /\ calls' = [calls EXCEPT ![s] = IF hit THEN startCreate(c) ELSE Idle]
        /\ last' = [Event("correlate", c) EXCEPT !.create = hit]
  /\ UNCHANGED aux
  /\ UNCHANGED <<now, incidentTrackers, incidents, resolvers, nextRequest, config,
                 evalCfg, hist>>
\* ReportIncident, lines 191-208, after trackIncident returned false
Correlate(s) ==
  /\ calls[s].pc = "correlate"
  /\ LET c == calls[s].comp
         hit == correlated(incidentTrackers, config, now)
     IN /\ calls' = [calls EXCEPT ![s] = IF hit THEN startCreate(c) ELSE Idle]
        /\ last' = [Event("correlate", c) EXCEPT !.create = hit]
  /\ UNCHANGED aux
  /\ UNCHANGED <<now, incidentTrackers, incidents, resolvers, nextRequest, config,
                 evalCfg, hist>>

\* what the primary provider may answer to a request: no answer at all
\* (transport error), or a status with a body that parses as JSON or not
Answers ==
  {[transport |-> TRUE, status |-> 0, json |-> FALSE]}
  \cup [transport : {FALSE}, status : {202, 300, 301, 503}, json : BOOLEAN]

\* opsGenieHTTP: retryablehttp retries a 5xx answer and gives up with an error
opsGenieHTTP(answer) ==
  IF answer.transport \/ answer.status >= 500
    THEN [err |-> TRUE, status |-> 0]
    ELSE [err |-> FALSE, status |-> answer.status]

\* CreateOpsGenieAlert, lines 318-339: the answers it goes on with
createAccepted(answer) ==
  LET resp == opsGenieHTTP(answer)
  IN ~resp.err /\ ~(resp.status > 300) /\ answer.json

\* CreateOpsGenieAlert: the POST and, when it is accepted, the record and the
\* resolver task
CreateOpsGenieAlert(s, answer) ==
  /\ calls[s].pc = "createOG"
  /\ createAccepted(answer) => nextRequest <= MaxRequests
  /\ LET c == calls[s].comp
         requestID == RequestID(nextRequest)
     IN /\ IF createAccepted(answer)
             THEN /\ incidents' = MapPut(incidents, c, opsGenieRecord(requestID))
                  /\ resolvers' = resolvers \cup {[entity |-> c, requestID |-> requestID]}
                  /\ nextRequest' = nextRequest + 1
             ELSE UNCHANGED <<incidents, resolvers, nextRequest>>
        /\ calls' = [calls EXCEPT ![s] = IF afterOpsGenie(config) = "idle" THEN Idle
                                         ELSE inCall(afterOpsGenie(config), c)]
        /\ last' = [Event("createOG", "") EXCEPT !.answer = answer,
                                                !.err = ~createAccepted(answer)]
  /\ UNCHANGED aux
  /\ UNCHANGED <<now, incidentTrackers, config, evalCfg, hist>>

\* CreatePDIncident: the trigger event and, when it succeeds, the record
CreatePDIncident(s, ok) ==
  /\ calls[s].pc = "createPD"
  /\ LET c == calls[s].comp
     IN /\ incidents' = IF ok THEN MapPut(incidents, c, pagerDutyRecord(AliasOf(c)))
                        ELSE incidents
        /\ last' = [Event("createPD", "") EXCEPT !.err = ~ok]
  /\ calls' = [calls EXCEPT ![s] = Idle]
  /\ UNCHANGED aux
  /\ UNCHANGED <<now, incidentTrackers, resolvers, nextRequest, config, evalCfg, hist>>

\* getOpsGenieAlertIDRetry: a lookup succeeded
ResolverFound(r) ==
  /\ r \in resolvers
  /\ incidents' = storeAlertID(incidents, r.entity, AlertIDOf(r.requestID))
  /\ resolvers' = resolvers \ {r}
  /\ last' = Event("step", "")
  /\ UNCHANGED aux
  /\ UNCHANGED <<now, incidentTrackers, nextRequest, calls, config, evalCfg, hist>>

\* getOpsGenieAlertIDRetry: no lookup succeeded within the timeout
ResolverGiveUp(r) ==
  /\ r \in resolvers
  /\ resolvers' = resolvers \ {r}
  /\ last' = Event("step", "")
  /\ UNCHANGED aux
  /\ UNCHANGED <<now, incidentTrackers, incidents, nextRequest, calls, config,
                 evalCfg, hist>>

\* ClearIncident, line 213: RemoveIncident; closeOk tells whether the
\* providers accepted the requests it sent
ClearIncidentRemove(s, c, closeOk) ==
  /\ calls[s].pc = "idle"
  /\ c \in DOMAIN incidentTrackers => incidentTrackers[c].Counters > 0 - MaxNegative
  /\ LET r == RemoveIncident(incidents, c, config)
     IN /\ r.sent = {} => closeOk
        /\ incidents' = r.incidents
        /\ calls' = [calls EXCEPT ![s] = [pc |-> "clearTracker", comp |-> c,
                                          sent |-> r.sent, closeErr |-> ~closeOk]]
  /\ last' = Event("step", "")
  /\ UNCHANGED aux
  /\ UNCHANGED <<now, incidentTrackers, resolvers, nextRequest, config, evalCfg, hist>>

ClearIncidentTracker_skipOnError(s) ==
  /\ calls[s].pc = "clearTracker"
  /\ LET c == calls[s].comp
     IN /\ incidentTrackers' = IF calls[s].closeErr THEN incidentTrackers
                               ELSE clearTracker(incidentTrackers, c)
  /\ last' = [Event("cleared", "") EXCEPT !.err = calls[s].closeErr]
  /\ calls' = [calls EXCEPT ![s] = Idle]
  /\ UNCHANGED aux
  /\ UNCHANGED <<now, incidents, resolvers, nextRequest, config, evalCfg, hist>>
\* ClearIncident, lines 215-221: the tracker's clear
ClearIncidentTracker(s) ==
  /\ calls[s].pc = "clearTracker"
  /\ LET c == calls[s].comp
     IN /\ incidentTrackers' = clearTracker(incidentTrackers, c)
  /\ last' = [Event("cleared", "") EXCEPT !.err = calls[s].closeErr]
  /\ calls' = [calls EXCEPT ![s] = Idle]
  /\ UNCHANGED aux
  /\ UNCHANGED <<now, incidents, resolvers, nextRequest, config, evalCfg, hist>>

\* the two answers that stand for the rest: accepted, and a transport error
AcceptedAnswer == [transport |-> FALSE, status |-> 202, json |-> TRUE]
FailedAnswer == [transport |-> TRUE, status |-> 0, json |-> FALSE]

Next ==
  \/ \E s \in Slots, p \in Probes : ReportIncidentTrack(s, p.comp, p.eval)
  \/ \E s \in Slots, p \in Probes : ReportIncidentUntracked(s, p.comp, p.eval)
  \/ \E s \in Slots : Correlate(s)
  \/ \E s \in Slots, answer \in {AcceptedAnswer, FailedAnswer} : CreateOpsGenieAlert(s, answer)
  \/ \E s \in Slots, ok \in BOOLEAN : CreatePDIncident(s, ok)
  \/ \E r \in resolvers : ResolverFound(r)
  \/ \E r \in resolvers : ResolverGiveUp(r)
  \/ \E s \in Slots, c \in Comps : ClearIncidentRemove(s, c, TRUE)
  \/ \E s \in Slots : ClearIncidentTracker(s)
  \/ Tick(Minute, MaxSysSteps)

Spec == Init /\ [][Next]_vars

\* ------------------------------------------- escalation specification
\* The escalation of one probe and its clearing, with every answer the
\* providers may give to the create and close requests.
EscalatingProbes == {p \in Probes : p.comp \in {"c1", "c3"} /\ p.eval.Ceiling > 0}

InitEscalate ==
  /\ InitCommon
  /\ config \in [K8sEnabled : {FALSE}, genieKey : {"", "gk"}, pdKey : {"", "pk"}]
  /\ evalCfg = NoPolicy

NextEscalate ==
  \/ \E s \in Slots, p \in EscalatingProbes : ReportIncidentTrack(s, p.comp, p.eval)
  \/ \E s \in Slots : Correlate(s)
  \/ \E s \in Slots, answer \in Answers : CreateOpsGenieAlert(s, answer)
  \/ \E s \in Slots, ok \in BOOLEAN : CreatePDIncident(s, ok)
  \/ \E r \in resolvers : ResolverFound(r)
  \/ \E r \in resolvers : ResolverGiveUp(r)
  \/ \E s \in Slots, p \in EscalatingProbes, closeOk \in BOOLEAN :
        ClearIncidentRemove(s, p.comp, closeOk)
  \/ \E s \in Slots : ClearIncidentTracker(s)
  \/ Tick(Minute, MaxSysSteps)

SpecEscalate == InitEscalate /\ [][NextEscalate]_vars

\* ------------------------------------------- resolver task specification
\* One getOpsGenieAlertIDRetry task from its spawn to its end, in
\* milliseconds since start := time.Now().  A lookup takes some time before
\* it answers; ClearIncident and CreatePDIncident may run meanwhile.
LookupTimes == {k * LookupStepMs : k \in 0..MaxLookupSteps}

\* getOpsGenieAlertID: the alertID, or an error
getOpsGenieAlertID(requestID, answer) ==
  LET resp == opsGenieHTTP(answer)
  IN IF ~resp.err /\ ~(resp.status > 300) /\ answer.json
       THEN [err |-> FALSE, alertID |-> AlertIDOf(requestID)]
       ELSE [err |-> TRUE, alertID |-> NoAlertID]

\* getOpsGenieAlertIDRetry at its first statement
spawnRetry(entity, requestID) ==
  [pc |-> "check", entity |-> entity, requestID |-> requestID,
   elapsed |-> 0, waitDuration |-> RetryFirstWait, slept |-> <<>>, started |-> <<>>]

InitRetry ==
  /\ now = 0
  /\ incidentTrackers = EmptyMap
  /\ incidents = MapPut(EmptyMap, "c1", opsGenieRecord(RequestID(1)))
  /\ resolvers = {}
  /\ nextRequest = 2
  /\ calls = [s \in {1} |-> [pc |-> "idle"]]
  /\ config \in [K8sEnabled : {FALSE}, genieKey : {"gk"}, pdKey : {"", "pk"}]
  /\ evalCfg = NoPolicy
  /\ last = Event("init", "")
  /\ hist = [c \in Comps |-> NoHistory]
  /\ retry = spawnRetry("c1", RequestID(1))
  /\ probe = NoProbe
  /\ clients = NoClients
  /\ pubsub = NoPubSub
  /\ restIdle

retryFrame ==
  UNCHANGED <<now, incidentTrackers, resolvers, nextRequest, calls, config,
              evalCfg, hist, probe, clients, pubsub, locks, partition,
              metrics, calc>>

\* line 360: the loop condition, and line 375 when it fails
RetryCheck ==
  /\ retry.pc = "check"
  /\ retry' = [retry EXCEPT !.pc = IF retry.elapsed < RetryTimeout
                                     THEN "sleep" ELSE "gaveup"]
  /\ last' = Event("retry", retry.entity)
  /\ UNCHANGED incidents
  /\ retryFrame

\* line 361: time.Sleep(waitDuration); the lookup starts when it returns
RetrySleep ==
  /\ retry.pc = "sleep"
  /\ retry' = [retry EXCEPT !.pc = "lookup",
                            !.elapsed = @ + retry.waitDuration,
                            !.slept = Append(@, retry.waitDuration),
                            !.started = Append(@, retry.elapsed + retry.waitDuration)]
  /\ last' = Event("retry", retry.entity)
  /\ UNCHANGED incidents
  /\ retryFrame

\* lines 362-373: the lookup answers after d milliseconds
RetryLookup(d, answer) ==
  /\ retry.pc = "lookup"
  /\ LET r == getOpsGenieAlertID(retry.requestID, answer)
     IN IF ~r.err
          THEN /\ incidents' = storeAlertID(incidents, retry.entity, r.alertID)
               /\ retry' = [retry EXCEPT !.pc = "found", !.elapsed = @ + d]
          ELSE /\ UNCHANGED incidents
               /\ retry' = [retry EXCEPT !.pc = "check", !.elapsed = @ + d,
                                         !.waitDuration = @ * 2]
  /\ last' = Event("retry", retry.entity)
  /\ retryFrame

\* ClearIncident on the resolver's component while the task runs
RetryRemoveIncident ==
  /\ retry.entity \in DOMAIN incidents
  /\ incidents' = RemoveIncident(incidents, retry.entity, config).incidents
  /\ last' = Event("step", "")
  /\ UNCHANGED retry
  /\ retryFrame

\* CreateIncident going on to the secondary provider while the task runs
RetryCreatePDIncident ==
  /\ config.pdKey # ""
  /\ retry.entity \in DOMAIN incidents
  /\ incidents[retry.entity] = opsGenieRecord(retry.requestID)
  /\ incidents' = MapPut(incidents, retry.entity, pagerDutyRecord(AliasOf(retry.entity)))
  /\ last' = Event("step", "")
  /\ UNCHANGED retry
  /\ retryFrame

NextRetry ==
  \/ RetryCheck
  \/ RetrySleep
  \/ \E d \in LookupTimes, answer \in Answers : RetryLookup(d, answer)
  \/ RetryRemoveIncident
  \/ RetryCreatePDIncident

SpecRetry == InitRetry /\ [][NextRetry]_vars

\* ------------------------------------------------ probe specification
\* One probe loop of one kind: each run ends in at most one call into the
\* incident tracker.  Latencies are whole milliseconds; the outlier verdict
\* does not depend on the unit the samples are pushed in.
ProbeKinds == {"pubsub", "partition", "websocket", "admin", "broker", "orchestrator"}

\* the latency a run measures: within the budget, or over it
expectedLatency == TimeDuration(LatencyBudgetMs, latencyBudget, 1)
wsExpectedLatency == TimeDuration(LatencyBudgetMs, 2 * latencyBudget, 1)
Latencies == 1..(expectedLatency + 1)

\* StandardDeviation: Buckets as the number of samples of each value (Push
\* only sums over them), and Sum
EmptyBucket == [Buckets |-> [v \in Latencies |-> 0], Sum |-> 0]

RECURSIVE deviationSum(_, _, _, _, _)
\* the sum over the samples v of bucket b (those in S) of n * v - s, or of
\* its square
deviationSum(S, b, n, s, squared) ==
  IF S = {} THEN 0
  ELSE LET v == CHOOSE x \in S : TRUE
           dev == n * v - s
       IN b[v] * (IF squared THEN dev * dev ELSE dev)
          + deviationSum(S \ {v}, b, n, s, squared)

counter(b) == deviationSum(DOMAIN b.Buckets, b.Buckets, 0, 0 - 1, FALSE)
\* the sum of the samples held
bucketSum(b) == deviationSum(DOMAIN b.Buckets, b.Buckets, 1, 0, FALSE)

\* StandardDeviation.Add: the sample is appended, Sum is left as it is
Add(b, num) == [b EXCEPT !.Buckets[num] = @ + 1]

\* Push without the "counter < 10" clause
Push_withoutMinimum(b, num) ==
  LET b1 == [Add(b, num) EXCEPT !.Sum = @ + num]
      n == counter(b1)
      s == b1.Sum
      d == n * num - s
      t == deviationSum(DOMAIN b1.Buckets, b1.Buckets, n, s, TRUE)
      lhs == d * d * n
      rhs == SigmaFactor * SigmaFactor * t
  IN [bucket |-> b1,
      stdPositive |-> t > 0,
      meanPositive |-> s > 0,
      within |-> IF d < 0 \/ lhs < rhs THEN {TRUE}
                 ELSE IF lhs = rhs /\ t > 0 THEN {TRUE, FALSE}
                 ELSE {FALSE}]
\* StandardDeviation.Push: the bucket afterwards, whether std > 0 and
\* mean > 0, and the verdicts num - mean < 6 * std || counter < 10 can give.
\* With n samples held and Sum s, Mean = s / n, num - Mean = d / n and
\* std * std = t / n^3 where d = n * num - s and t is the sum of
\* (n * v - s)^2; when the two sides are equal and not zero the
\* floating-point rounding decides.
Push(b, num) ==
  LET b1 == [Add(b, num) EXCEPT !.Sum = @ + num]
      n == counter(b1)
      s == b1.Sum
      d == n * num - s
      t == deviationSum(DOMAIN b1.Buckets, b1.Buckets, n, s, TRUE)
      lhs == d * d * n
      rhs == SigmaFactor * SigmaFactor * t
  IN [bucket |-> b1,
      stdPositive |-> t > 0,
      meanPositive |-> s > 0,
      within |-> IF n < MinSamples \/ d < 0 \/ lhs < rhs THEN {TRUE}
                 ELSE IF lhs = rhs /\ t > 0 THEN {TRUE, FALSE}
                 ELSE {FALSE}]

\* what a run did: the inputs that decided it and the call it ended in
\* (flagged: Push answered not within 6 sigma)
Run(kind, failed, inOrder, latency, flagged, call) ==
  [kind |-> kind, failed |-> failed, inOrder |-> inOrder, latency |-> latency,
   flagged |-> flagged, call |-> call]

\* the results PubSubLatency and WsLatencyTest return
ProbeResults ==
  [err : {TRUE}, InOrderDelivery : {FALSE}, Latency : {0}]
  \cup [err : {FALSE}, InOrderDelivery : BOOLEAN, Latency : Latencies]

InitProbe ==
  /\ InitCommon
  /\ config = [K8sEnabled |-> FALSE, genieKey |-> "", pdKey |-> ""]
  /\ evalCfg = NoPolicy

probeFrame ==
  UNCHANGED <<now, incidentTrackers, incidents, resolvers, nextRequest, calls,
              config, evalCfg, hist, retry, clients, pubsub, locks,
              partition, metrics, calc>>

\* the loop of a probe thread starts
StartProbe(kind) ==
  /\ probe = NoProbe
  /\ probe' = [kind |-> kind, bucket |-> EmptyBucket,
               run |-> Run(kind, FALSE, TRUE, 0, FALSE, "notrun")]
  /\ last' = Event("probe", "")
  /\ probeFrame

\* a run of the probe: the one before the loop, or case <-ticker.C
ranAs(run, bucket) ==
  /\ probe' = [probe EXCEPT !.run = run, !.bucket = bucket]
  /\ last' = Event("probe", "")
  /\ probeFrame

testTopicLatency_latencyFirst(result, within) ==
  /\ probe.kind = "pubsub"
  /\ ~result.err => counter(probe.bucket) < MaxSamples
  /\ LET pushed == Push(probe.bucket, result.Latency)
         outlier == ~within /\ pushed.stdPositive /\ pushed.meanPositive
     IN IF result.err
          THEN within /\ ranAs(Run("pubsub", TRUE, FALSE, 0, FALSE, "report"), probe.bucket)
        ELSE IF result.Latency > expectedLatency
          THEN within /\ ranAs(Run("pubsub", FALSE, result.InOrderDelivery, result.Latency,
                                   FALSE, "report"),
                               Add(probe.bucket, result.Latency))
        ELSE IF ~result.InOrderDelivery
          THEN within /\ ranAs(Run("pubsub", FALSE, FALSE, result.Latency, FALSE, "none"),
                               probe.bucket)
        ELSE /\ within \in pushed.within
             /\ ranAs(Run("pubsub", FALSE, TRUE, result.Latency, ~within,
                          IF outlier THEN "none" ELSE "clear"),
                      pushed.bucket)
\* testTopicLatency, lines 288-325
testTopicLatency(result, within) ==
  /\ probe.kind = "pubsub"
  /\ ~result.err => counter(probe.bucket) < MaxSamples
  /\ LET pushed == Push(probe.bucket, result.Latency)
         outlier == ~within /\ pushed.stdPositive /\ pushed.meanPositive
     IN IF result.err
          THEN within /\ ranAs(Run("pubsub", TRUE, FALSE, 0, FALSE, "report"), probe.bucket)
        ELSE IF ~result.InOrderDelivery
          THEN within /\ ranAs(Run("pubsub", FALSE, FALSE, result.Latency, FALSE, "none"),
                               probe.bucket)
        ELSE IF result.Latency > expectedLatency
          THEN within /\ ranAs(Run("pubsub", FALSE, TRUE, result.Latency, FALSE, "report"),
                               Add(probe.bucket, result.Latency))
        ELSE /\ within \in pushed.within
             /\ ranAs(Run("pubsub", FALSE, TRUE, result.Latency, ~within,
                          IF outlier THEN "none" ELSE "clear"),
                      pushed.bucket)

\* TestWsLatency, lines 599-618 (WsLatencyTest sets no InOrderDelivery)
TestWsLatency(result, within) ==
  /\ probe.kind = "websocket"
  /\ ~result.InOrderDelivery
  /\ ~result.err => counter(probe.bucket) < MaxSamples
  /\ LET pushed == Push(probe.bucket, result.Latency)
     IN IF result.err
          THEN within /\ ranAs(Run("websocket", TRUE, FALSE, 0, FALSE, "none"), probe.bucket)
        ELSE IF result.Latency > wsExpectedLatency
          THEN within /\ ranAs(Run("websocket", FALSE, FALSE, result.Latency, FALSE, "report"),
                               Add(probe.bucket, result.Latency))
        ELSE /\ within \in pushed.within
             /\ ranAs(Run("websocket", FALSE, FALSE, result.Latency, ~within,
                          IF ~within THEN "report" ELSE "clear"),
                      pushed.bucket)

\* testPartitionTopic: getPartition, GetPulsarClient or TestPartitionTopic
\* fails, or the latency is measured (0 counts as over the budget)
testPartitionTopic(err, latency) ==
  /\ probe.kind = "partition"
  /\ IF err THEN latency = 0 /\ ranAs(Run("partition", TRUE, FALSE, 0, FALSE, "report"),
                                        probe.bucket)
     ELSE ranAs(Run("partition", FALSE, FALSE, latency, FALSE,
                    IF latency > expectedLatency \/ latency = 0 THEN "report" ELSE "clear"),
                probe.bucket)

\* PulsarTenants, for one cluster
PulsarTenants(err) ==
  /\ probe.kind = "admin"
  /\ ranAs(Run("admin", err, FALSE, 0, FALSE, IF err THEN "report" ELSE "clear"),
           probe.bucket)

\* TestBrokers: the number of failed brokers and the error EvaluateBrokers gave
TestBrokers(failedBrokers, err) ==
  /\ probe.kind = "broker"
  /\ ranAs(Run("broker", err \/ failedBrokers > 0, FALSE, 0, FALSE,
               IF failedBrokers > 0 THEN "report"
               ELSE IF err THEN "report" ELSE "clear"),
           probe.bucket)

\* EvaluateClusterHealth: UpdateReplicas or WatchPods fails, or the status
EvaluateClusterHealth(err, status) ==
  /\ probe.kind = "orchestrator"
  /\ IF err THEN status = "OK" /\ ranAs(Run("orchestrator", TRUE, FALSE, 0, FALSE, "none"),
                                         probe.bucket)
     ELSE ranAs(Run("orchestrator", FALSE, FALSE, 0, FALSE,
                    IF status = "OK" THEN "clear"
                    ELSE IF status = "TotalDown" THEN "report" ELSE "none"),
                probe.bucket)

NextProbe ==
  \/ \E kind \in ProbeKinds : StartProbe(kind)
  \/ \E result \in ProbeResults, within \in BOOLEAN : testTopicLatency(result, within)
  \/ \E result \in ProbeResults, within \in BOOLEAN : TestWsLatency(result, within)
  \/ \E err \in BOOLEAN, latency \in {0} \cup Latencies : testPartitionTopic(err, latency)
  \/ \E err \in BOOLEAN : PulsarTenants(err)
  \/ \E failedBrokers \in 0..1, err \in BOOLEAN : TestBrokers(failedBrokers, err)
  \/ \E err \in BOOLEAN, status \in {"OK", "PartialReady", "TotalDown"} :
        EvaluateClusterHealth(err, status)

SpecProbe == InitProbe /\ [][NextProbe]_vars

\* --------------------------------------------- downtime specification
\* The pub/sub probe of one topic together with the tracker of its cluster
\* and the downtime gauge.  No pager provider is configured, so that
\* CreateIncident and RemoveIncident send nothing and store nothing.
\* part_007 lines 110-127: the fields of TopicCfg isDowntimeReporting reads,
\* and the interval
TopicCfgs ==
  [DowntimeTrackerDisabled : BOOLEAN, NumberOfPartitions : {0, 1},
   ClusterName : {"", "cluster"}, IntervalSeconds : {30}]
\* part_006 lines 331-333
isDowntimeReporting(cfg) ==
  ~cfg.DowntimeTrackerDisabled /\ cfg.NumberOfPartitions = 1 /\ cfg.ClusterName # ""

\* incident.go lines 185-209: the registry afterwards and the flag returned
ReportIncident(trackers, component, eval, cfg, at) ==
  LET r == IF eval.Ceiling > 0 THEN trackIncident(trackers, component, eval, at)
           ELSE [trackers |-> trackers, rc |-> FALSE, verbose |-> FALSE]
  IN [trackers |-> r.trackers,
      rc |-> r.rc \/ correlated(r.trackers, cfg, at)]

InitDowntime ==
  /\ now = 0
  /\ incidentTrackers = EmptyMap
  /\ incidents = EmptyMap
  /\ resolvers = {}
  /\ nextRequest = 1
  /\ calls = [s \in {1} |-> [pc |-> "idle"]]
  /\ config \in [K8sEnabled : BOOLEAN, genieKey : {""}, pdKey : {""}]
  /\ evalCfg \in PolicySet
  /\ last = Event("init", "")
  /\ hist = [c \in Comps |-> NoHistory]
  /\ retry = NoRetry
  /\ clients = NoClients
  /\ pubsub = NoPubSub
  /\ restIdle
  /\ \E topicCfg \in TopicCfgs :
       probe = [kind |-> "pubsub", topicCfg |-> topicCfg, bucket |-> EmptyBucket,
                run |-> Run("pubsub", FALSE, TRUE, 0, FALSE, "notrun"),
                rc |-> FALSE, wrote |-> {}, downtime |-> {}]

\* a run of testTopicLatency: the call it ended in, the bucket, the
\* registry, what ReportIncident returned and the value PromGauge wrote (a
\* set with that value, empty when the gauge was not written)
ranWith(run, bucket, trackers, rc, wrote) ==
  /\ probe' = [probe EXCEPT !.run = run, !.bucket = bucket, !.rc = rc,
                            !.wrote = wrote,
                            !.downtime = IF wrote = {} THEN @ ELSE wrote]
  /\ incidentTrackers' = trackers
  /\ now' = now + 1
  /\ last' = Event("probe", "")
  /\ UNCHANGED <<incidents, resolvers, nextRequest, calls, config, evalCfg,
                 hist, retry, clients, pubsub, locks, partition, metrics, calc>>

\* part_006 lines 264-333: TestTopicLatency for a topic without partitions,
\* that is testTopicLatency with ReportIncident, ClearIncident and the
\* downtime gauge
TestTopicLatency(result, within) ==
  /\ probe.kind = "pubsub"
  /\ Elapsed(now) < MaxSteps
  /\ "c1" \in DOMAIN incidentTrackers =>
       incidentTrackers["c1"].Counters > 0 - MaxNegative
  /\ LET pushed == Push(probe.bucket, result.Latency)
         outlier == ~within /\ pushed.stdPositive /\ pushed.meanPositive
         reported == ReportIncident(incidentTrackers, "c1", evalCfg, config, now)
         gauge == IF reported.rc /\ isDowntimeReporting(probe.topicCfg)
                  THEN {probe.topicCfg.IntervalSeconds} ELSE {}
     IN IF result.err
          THEN within /\ ranWith(Run("pubsub", TRUE, FALSE, 0, FALSE, "report"),
                                 probe.bucket, reported.trackers, reported.rc, gauge)
        ELSE IF ~result.InOrderDelivery
          THEN within /\ ranWith(Run("pubsub", FALSE, FALSE, result.Latency, FALSE, "none"),
                                 probe.bucket, incidentTrackers, FALSE, {})
        ELSE IF result.Latency > expectedLatency
          THEN within /\ ranWith(Run("pubsub", FALSE, TRUE, result.Latency, FALSE, "report"),
                                 Add(probe.bucket, result.Latency),
                                 reported.trackers, reported.rc, gauge)
        ELSE /\ within \in pushed.within
             /\ IF outlier
                  THEN ranWith(Run("pubsub", FALSE, TRUE, result.Latency, TRUE, "none"),
                               pushed.bucket, incidentTrackers, FALSE, {})
                  ELSE ranWith(Run("pubsub", FALSE, TRUE, result.Latency, ~within, "clear"),
                               pushed.bucket,
                               clearTracker(incidentTrackers, "c1"), FALSE,
                               IF isDowntimeReporting(probe.topicCfg) THEN {0} ELSE {})

NextDowntime ==
  \E result \in ProbeResults, within \in BOOLEAN : TestTopicLatency(result, within)

SpecDowntime == InitDowntime /\ [][NextDowntime]_vars

\* ------------------------------------------- publish/consume specification
\* One invocation of PubSubLatency from the point where the producer and the
\* consumer exist: the coordinator's send loop and select, the consumer
\* goroutine, the SendAsync callbacks and the two channels.  Durations are
\* counted in units of 1/UnitsPerMs millisecond.  The broker is free: the
\* subscription "latency-measure" is durable, so it may deliver copies of
\* the expected payloads left by earlier runs, redeliver, and deliver what
\* other producers wrote to the topic.
failedLatency == 100 * 1000 * UnitsPerMs
msgPrefix == "messageid"

\* what strings.Split(payload, "-") yields: the first part, how many parts
\* there are, and the value of the second part when it is a number
NotANumber == 0 - 9
payload(i) == [head |-> msgPrefix, parts |-> 3, num |-> i]
ForeignPayloads ==
  {[head |-> "other", parts |-> 1, num |-> NotANumber],
   [head |-> msgPrefix, parts |-> 2, num |-> NotANumber],
   [head |-> msgPrefix, parts |-> 1, num |-> NotANumber]}
Deliverable(n) == {payload(i) : i \in 0..(n - 1)} \cup ForeignPayloads

\* parts[1] is read without a length check
GetMessageIDPanics(prefix, str) == prefix = str.head /\ str.parts < 2
GetMessageID(prefix, str) ==
  IF prefix # str.head THEN 0 - 1
  ELSE IF str.num = NotANumber THEN 0 - 2
  ELSE str.num

\* the time between a send and a receipt
TransitTimes == {1, UnitsPerMs + 1}

\* the invocation has not ended
Running == {"send", "select", "parked"}

\* a value sent on a channel while the coordinator is parked in its select
\* completes the select; otherwise it is buffered (capacity 1)
\* the coordinator has not returned, or it has and the tasks it started go on
Alive == Running \cup {"returned"}
\* the consumer goroutine among the tasks that send on errorChan (the
\* callbacks are numbered from 0)
consumerTask == 0 - 1
\* the tasks blocked in a send on errorChan
waiting(p) ==
  p.blocked \cup (IF p.consumer = "blocked" THEN {consumerTask} ELSE {})

errorResult(kind) ==
  [kind |-> kind, Latency |-> failedLatency, InOrderDelivery |-> FALSE]
sendOnErrorChan(p, kind) ==
  IF p.pc = "parked"
  THEN [p EXCEPT !.pc = "returned", !.result = errorResult(kind)]
  ELSE [p EXCEPT !.errorChan = <<kind>>]
sendOnCompleteChan(p, result) ==
  IF p.pc = "parked"
  THEN [p EXCEPT !.pc = "returned", !.result = result]
  ELSE [p EXCEPT !.completeChan = <<result>>]

RECURSIVE totalLatency(_, _)
totalLatency(S, sent) ==
  IF S = {} THEN 0
  ELSE LET i == CHOOSE x \in S : TRUE
       IN sent[i].Latency + totalLatency(S \ {i}, sent)

\* lines 184-195: what the consumer goroutine hands over
computeResult(sent, n) ==
  [kind |-> "success",
   Latency |-> ((totalLatency(DOMAIN sent, sent) \div UnitsPerMs) \div n) * UnitsPerMs,
   InOrderDelivery |-> \A i \in DOMAIN sent : sent[i].InOrderDelivery]

InitPubSub ==
  /\ InitCommon
  /\ config = [K8sEnabled |-> FALSE, genieKey |-> "", pdKey |-> ""]
  /\ evalCfg = NoPolicy

pubsubFrame ==
  UNCHANGED <<now, incidentTrackers, incidents, resolvers, nextRequest, calls,
              config, evalCfg, last, hist, retry, probe, clients, locks,
              partition, metrics, calc>>

\* lines 134-147 and 150: the state of a new invocation with n payloads
StartPubSub(n) ==
  /\ pubsub = NoPubSub
  /\ pubsub' = [pc |-> "send", n |-> n, next |-> 0, sentPayloads |-> <<>>,
                pending |-> {}, consumer |-> "receive", receivedCount |-> n,
                lastMessageIndex |-> 0 - 1, completeChan |-> <<>>,
                errorChan |-> <<>>, result |-> [kind |-> "none"],
                received |-> <<>>, blocked |-> {}, receiveFailed |-> FALSE]
  /\ pubsubFrame

\* lines 200-222: one iteration of the send loop
SendAsync ==
  /\ pubsub.pc = "send"
  /\ LET i == pubsub.next
     IN pubsub' = [pubsub EXCEPT
          !.sentPayloads = MapPut(@, i, [Latency |-> 0, InOrderDelivery |-> FALSE]),
          !.pending = @ \cup {i},
          !.next = i + 1,
          !.pc = IF i + 1 = pubsub.n THEN "select" ELSE "send"]
  /\ pubsubFrame

\* lines 214-222: the callback of a send, which the producer may run after
\* the return as well (producer.Close is deferred); a failed send reports on
\* errorChan and blocks while errorChan is full
SendCallback(i, ok) ==
  /\ pubsub.pc \in Alive
  /\ i \in pubsub.pending
  /\ LET p == [pubsub EXCEPT !.pending = @ \ {i}]
     IN pubsub' = IF ok THEN p
                  ELSE IF pubsub.errorChan = <<>> THEN sendOnErrorChan(p, "send")
                  ELSE [p EXCEPT !.blocked = @ \cup {i}]
  /\ pubsubFrame

\* lines 152-179: one message the consumer goroutine receives
Receive(str, transit) ==
  /\ pubsub.pc \in Running
  /\ pubsub.consumer = "receive"
  /\ IF GetMessageIDPanics(msgPrefix, str)
     THEN pubsub' = [pubsub EXCEPT !.pc = "panic", !.consumer = "panic"]
     ELSE LET currentMsgIndex == GetMessageID(msgPrefix, str)
              ok == str.parts = 3 /\ str.num \in DOMAIN pubsub.sentPayloads
              inOrder == currentMsgIndex > pubsub.lastMessageIndex
          IN IF ok
             THEN pubsub' = [pubsub EXCEPT
                    !.receivedCount = @ - 1,
                    !.sentPayloads[str.num] =
                       [Latency |-> transit,
                        InOrderDelivery |-> @.InOrderDelivery \/ inOrder],
                    !.lastMessageIndex = IF inOrder THEN currentMsgIndex ELSE @,
                    !.received = Append(@, str.num),
                    !.consumer = IF pubsub.receivedCount = 1 THEN "complete"
                                 ELSE "receive"]
             ELSE pubsub' = pubsub
  /\ pubsubFrame

\* lines 158-162: Receive fails or times out, before the return or after it
\* (consumer.Close is deferred); the goroutine blocks while errorChan is
\* full.  receiveFailed: Receive failed before the return.
ReceiveError ==
  /\ pubsub.pc \in Alive
  /\ pubsub.consumer = "receive"
  /\ LET p == [pubsub EXCEPT !.receivedCount = 0,
                             !.receiveFailed = @ \/ pubsub.pc \in Running]
     IN pubsub' = IF pubsub.errorChan = <<>>
                  THEN sendOnErrorChan([p EXCEPT !.consumer = "complete"],
                                       "receive")
                  ELSE [p EXCEPT !.consumer = "blocked"]
  /\ pubsubFrame

\* lines 183-196: the goroutine leaves the loop with receivedCount = 0
Complete ==
  /\ pubsub.pc \in Alive
  /\ pubsub.consumer = "complete"
  /\ pubsub' = sendOnCompleteChan([pubsub EXCEPT !.consumer = "done"],
                                  computeResult(pubsub.sentPayloads, pubsub.n))
  /\ pubsubFrame

\* lines 226-236: the coordinator's select.  Of the cases that are ready
\* when it is reached one is taken at random; with none ready the
\* coordinator parks until a channel is written or the ticker fires.
SelectPark ==
  /\ pubsub.pc = "select"
  /\ pubsub.completeChan = <<>>
  /\ pubsub.errorChan = <<>>
  /\ pubsub' = [pubsub EXCEPT !.pc = "parked"]
  /\ pubsubFrame

SelectComplete ==
  /\ pubsub.pc = "select"
  /\ pubsub.completeChan # <<>>
  /\ pubsub' = [pubsub EXCEPT !.pc = "returned", !.completeChan = <<>>,
                              !.result = pubsub.completeChan[1]]
  /\ pubsubFrame

\* the receive from errorChan; a task blocked in its send, if there is one,
\* puts its error into the buffer and goes on
SelectError(sender) ==
  /\ pubsub.pc = "select"
  /\ pubsub.errorChan # <<>>
  /\ IF waiting(pubsub) = {} THEN sender = consumerTask
     ELSE sender \in waiting(pubsub)
  /\ LET p == [pubsub EXCEPT !.pc = "returned",
                             !.result = errorResult(pubsub.errorChan[1])]
     IN pubsub' =
          IF waiting(pubsub) = {} THEN [p EXCEPT !.errorChan = <<>>]
          ELSE IF sender = consumerTask
            THEN [p EXCEPT !.errorChan = <<"receive">>, !.consumer = "complete"]
          ELSE [p EXCEPT !.errorChan = <<"send">>, !.blocked = @ \ {sender}]
  /\ pubsubFrame

SelectTicker ==
  /\ pubsub.pc = "parked"
  /\ pubsub' = [pubsub EXCEPT !.pc = "returned",
                              !.result = errorResult("timeout")]
  /\ pubsubFrame

NextPubSub ==
  \/ \E n \in 1..MaxPayloads : StartPubSub(n)
  \/ SendAsync
  \/ \E i \in 0..(MaxPayloads - 1), ok \in BOOLEAN : SendCallback(i, ok)
  \/ \E str \in Deliverable(MaxPayloads), transit \in TransitTimes :
       Receive(str, transit)
  \/ ReceiveError
  \/ Complete
  \/ SelectPark
  \/ SelectComplete
  \/ \E sender \in {consumerTask} \cup (0..(MaxPayloads - 1)) : SelectError(sender)
  \/ SelectTicker

SpecPubSub == InitPubSub /\ [][NextPubSub]_vars

\* ------------------------------------------------ client cache specification
\* The package variable clients and the setup part of PubSubLatency, for the
\* topic threads TopicLatencyTestThread starts: one goroutine per configured
\* topic, all using the one map without a lock.  The first two topics are on
\* the same broker URL.  The exchange of messages is one step here.
Workers == 1..MaxWorkers
uriOf(w) == IF w <= 2 THEN "u" ELSE "v"
IdleUser == [pc |-> "idle", client |-> 0]

InitClients ==
  /\ now = 0
  /\ incidentTrackers = EmptyMap
  /\ incidents = EmptyMap
  /\ resolvers = {}
  /\ nextRequest = 1
  /\ calls = [s \in {1} |-> [pc |-> "idle"]]
  /\ config = [K8sEnabled |-> FALSE, genieKey |-> "", pdKey |-> ""]
  /\ evalCfg = NoPolicy
  /\ last = Event("init", "")
  /\ hist = [c \in Comps |-> NoHistory]
  /\ retry = NoRetry
  /\ probe = NoProbe
  /\ pubsub = NoPubSub
  /\ restIdle
  /\ clients = [NoClients EXCEPT !.users = [w \in Workers |-> IdleUser]]

clientsFrame ==
  UNCHANGED <<now, incidentTrackers, incidents, resolvers, nextRequest, calls,
              config, evalCfg, last, hist, retry, probe, pubsub, locks,
              partition, metrics, calc>>

\* lines 59-60 and 87: the map is read; a cached client is handed out
GetPulsarClient(w) ==
  LET pulsarURL == uriOf(w)
  IN /\ clients.users[w].pc = "idle"
     /\ clients' = IF pulsarURL \in DOMAIN clients.cache
                   THEN [clients EXCEPT
                          !.users[w] = [pc |-> "producer",
                                        client |-> clients.cache[pulsarURL]]]
                   ELSE [clients EXCEPT !.users[w].pc = "newclient"]
     /\ clientsFrame

\* lines 61-85 and 92-95: after a miss a client is built and written to the
\* map, whatever the map holds by then; when pulsar.NewClient fails
\* PubSubLatency returns failedLatency
NewClient(w, ok) ==
  /\ clients.users[w].pc = "newclient"
  /\ ok => clients.made < MaxClients
  /\ clients' = IF ok
                THEN [clients EXCEPT
                       !.made = @ + 1,
                       !.uri = Append(@, uriOf(w)),
                       !.cache = MapPut(@, uriOf(w), clients.made + 1),
                       !.users[w] = [pc |-> "producer",
                                     client |-> clients.made + 1]]
                ELSE [clients EXCEPT !.users[w] = IdleUser]
  /\ clientsFrame

\* lines 101-110: a closed client creates nothing; on failure client.Close()
CreateProducer(w, ok) ==
  /\ clients.users[w].pc = "producer"
  /\ clients.users[w].client \in clients.closed => ~ok
  /\ clients' = IF ok
                THEN [clients EXCEPT !.users[w].pc = "subscribe"]
                ELSE [clients EXCEPT !.users[w].pc = "evict",
                                     !.closed = @ \cup {clients.users[w].client}]
  /\ clientsFrame

\* lines 108-109: delete(clients, uri) and the return of failedLatency
EvictAfterProducer(w) ==
  /\ clients.users[w].pc = "evict"
  /\ clients' = [clients EXCEPT !.cache = MapDelete(@, uriOf(w)),
                                !.users[w] = IdleUser]
  /\ clientsFrame

\* lines 119-131: on failure delete(clients, uri), then the deferred
\* producer.Close() and client.Close() as the call returns
Subscribe(w, ok) ==
  /\ clients.users[w].pc = "subscribe"
  /\ clients.users[w].client \in clients.closed => ~ok
  /\ clients' = IF ok
                THEN [clients EXCEPT !.users[w].pc = "exchange"]
                ELSE [clients EXCEPT !.cache = MapDelete(@, uriOf(w)),
                                     !.closed = @ \cup {clients.users[w].client},
                                     !.users[w] = IdleUser]
  /\ clientsFrame

\* lines 133-237: the messages are exchanged and the call returns; the
\* client stays in the cache
Exchange(w) ==
  /\ clients.users[w].pc = "exchange"
  /\ clients' = [clients EXCEPT !.users[w] = IdleUser]
  /\ clientsFrame

NextClients ==
  \E w \in Workers :
    \/ GetPulsarClient(w)
    \/ \E ok \in BOOLEAN : NewClient(w, ok)
    \/ \E ok \in BOOLEAN : CreateProducer(w, ok)
    \/ EvictAfterProducer(w)
    \/ \E ok \in BOOLEAN : Subscribe(w, ok)
    \/ Exchange(w)

SpecClients == InitClients /\ [][NextClients]_vars

\* ------------------------------------------------ registry lock specification
\* ReportIncident and ClearIncident statement by statement where a lock or a
\* request is involved: incidentTrackersLock and incidentsLock with their
\* holders, the chat-webhook posts of VerboseAlert and Alert, and the
\* provider requests.  The secondary provider is configured.
Tasks == 1..MaxTasks
Hour == 60 * Minute
NoHolder == 0
IdleTask == [pc |-> "idle", comp |-> "", rc |-> FALSE]
\* the probes whose reports go through the tracker
LockProbes == {p \in Probes : p.comp \in {"c1", "c2"} /\ p.eval.Ceiling > 0}

InitLocks ==
  /\ now = 0
  /\ incidentTrackers = EmptyMap
  /\ incidents = EmptyMap
  /\ resolvers = {}
  /\ nextRequest = 1
  /\ calls = [s \in {1} |-> [pc |-> "idle"]]
  /\ config = [K8sEnabled |-> FALSE, genieKey |-> "", pdKey |-> "pk"]
  /\ evalCfg = NoPolicy
  /\ last = Event("init", "")
  /\ hist = [c \in Comps |-> NoHistory]
  /\ retry = NoRetry
  /\ probe = NoProbe
  /\ clients = NoClients
  /\ pubsub = NoPubSub
  /\ partition = NoPartition
  /\ metrics = NoMetrics
  /\ calc = NoCalc
  /\ \E url \in {"", "hook"}, verbose \in BOOLEAN :
       locks = [pc |-> "run",
                incidentTrackersLock |-> [writer |-> NoHolder, readers |-> {}],
                incidentsLock |-> NoHolder,
                tasks |-> [t \in Tasks |-> IdleTask],
                slack |-> [AlertURL |-> url, Verbose |-> verbose],
                componentsAlert |-> EmptyMap]

locksFrame ==
  UNCHANGED <<resolvers, nextRequest, calls, config, evalCfg, last, hist,
              retry, probe, clients, pubsub, partition, metrics, calc>>

trackersFree == locks.incidentTrackersLock = [writer |-> NoHolder, readers |-> {}]
at(t, pc) == locks.tasks[t].pc = pc

\* VerboseAlert with a silence window of one hour, up to the call of Alert:
\* the silence map afterwards and whether Alert is called
VerboseAlert(l, component, at0) ==
  IF l.slack.Verbose
    THEN [componentsAlert |-> l.componentsAlert, alert |-> TRUE]
    ELSE [componentsAlert |-> MapPut(l.componentsAlert, component, at0),
          alert |-> \/ component \notin DOMAIN l.componentsAlert
                    \/ at0 - l.componentsAlert[component] > Hour]
\* Alert posts to the webhook when one is configured
Alert(l) == l.slack.AlertURL # ""

\* trackIncident, line 173: incidentTrackersLock.Lock()
TrackLock(t, c) ==
  /\ at(t, "idle")
  /\ trackersFree
  /\ now < MaxSysSteps
  /\ locks' = [locks EXCEPT !.incidentTrackersLock.writer = t,
                            !.tasks[t] = [IdleTask EXCEPT !.pc = "track", !.comp = c]]
  /\ UNCHANGED <<now, incidentTrackers, incidents>>
  /\ locksFrame

\* trackIncident, lines 175-181, with report: the registry is updated; a
\* pre-alert that Alert posts is posted from inside report; otherwise the
\* function returns and the deferred Unlock runs
TrackReport(t, eval) ==
  /\ at(t, "track")
  /\ [comp |-> locks.tasks[t].comp, eval |-> eval] \in LockProbes
  /\ LET c == locks.tasks[t].comp
         r == trackIncident(incidentTrackers, c, eval, now)
         v == VerboseAlert(locks, c, now)
         next == IF r.rc THEN "create" ELSE "correlate"
     IN /\ incidentTrackers' = r.trackers
        /\ locks' =
             IF r.verbose /\ v.alert /\ Alert(locks)
             THEN [locks EXCEPT !.componentsAlert = v.componentsAlert,
                                !.tasks[t].pc = "preAlertPost",
                                !.tasks[t].rc = r.rc]
             ELSE [locks EXCEPT !.componentsAlert =
                                   IF r.verbose THEN v.componentsAlert ELSE @,
                                !.incidentTrackersLock.writer = NoHolder,
                                !.tasks[t].pc = next,
                                !.tasks[t].rc = r.rc]
  /\ now' = now + 1
  /\ UNCHANGED incidents
  /\ locksFrame

\* SendSlackNotification returns to report, report to trackIncident, and the
\* deferred Unlock runs
PreAlertPosted(t) ==
  /\ at(t, "preAlertPost")
  /\ locks' = [locks EXCEPT
       !.incidentTrackersLock.writer = NoHolder,
       !.tasks[t].pc = IF locks.tasks[t].rc THEN "create" ELSE "correlate"]
  /\ UNCHANGED <<now, incidentTrackers, incidents>>
  /\ locksFrame

\* ReportIncident, line 192: incidentTrackersLock.RLock()
CorrelateRLock(t) ==
  /\ at(t, "correlate")
  /\ locks.incidentTrackersLock.writer = NoHolder
  /\ locks' = [locks EXCEPT !.incidentTrackersLock.readers = @ \cup {t},
                            !.tasks[t].pc = "counting"]
  /\ UNCHANGED <<now, incidentTrackers, incidents>>
  /\ locksFrame

\* ReportIncident, lines 195-208: the count, RUnlock, and the decision
CorrelateRUnlock(t) ==
  /\ at(t, "counting")
  /\ locks' = [locks EXCEPT
       !.incidentTrackersLock.readers = @ \ {t},
       !.tasks[t] = IF correlated(incidentTrackers, config, now)
                    THEN [@ EXCEPT !.pc = "create"] ELSE IdleTask]
  /\ UNCHANGED <<now, incidentTrackers, incidents>>
  /\ locksFrame

\* CreateIncident: the Alert post and the trigger event are under way
\* (lines 240-255, CreatePDIncident up to PdV2Event)
CreateRequests(t) ==
  /\ at(t, "create")
  /\ locks' = [locks EXCEPT !.tasks[t].pc = "createPost"]
  /\ UNCHANGED <<now, incidentTrackers, incidents>>
  /\ locksFrame

\* CreatePDIncident after PdV2Event: an error returns, else incidentsLock.Lock()
CreateAnswered(t, ok) ==
  /\ at(t, "createPost")
  /\ ok => locks.incidentsLock = NoHolder
  /\ locks' = IF ok
              THEN [locks EXCEPT !.incidentsLock = t, !.tasks[t].pc = "store"]
              ELSE [locks EXCEPT !.tasks[t] = IdleTask]
  /\ UNCHANGED <<now, incidentTrackers, incidents>>
  /\ locksFrame

\* CreatePDIncident: the record is stored and the deferred Unlock runs
CreateStore(t) ==
  /\ at(t, "store")
  /\ incidents' = MapPut(incidents, locks.tasks[t].comp,
                         pagerDutyRecord(AliasOf(locks.tasks[t].comp)))
  /\ locks' = [locks EXCEPT !.incidentsLock = NoHolder, !.tasks[t] = IdleTask]
  /\ UNCHANGED <<now, incidentTrackers>>
  /\ locksFrame

\* ClearIncident -> RemoveIncident, line 263: incidentsLock.Lock()
RemoveLock(t, c) ==
  /\ at(t, "idle")
  /\ c \in {p.comp : p \in LockProbes}
  /\ c \in DOMAIN incidentTrackers =>
       incidentTrackers[c].Counters > 0 - MaxNegative
  /\ locks.incidentsLock = NoHolder
  /\ locks' = [locks EXCEPT !.incidentsLock = t,
                            !.tasks[t] = [IdleTask EXCEPT !.pc = "remove", !.comp = c]]
  /\ UNCHANGED <<now, incidentTrackers, incidents>>
  /\ locksFrame

\* RemoveIncident, lines 264-270: the record is taken out, Unlock, and with
\* an alertID the close requests follow
RemoveUnlock(t) ==
  /\ at(t, "remove")
  /\ LET c == locks.tasks[t].comp
         found == c \in DOMAIN incidents /\ incidents[c].alertID # NoAlertID
     IN /\ incidents' = MapDelete(incidents, c)
        /\ locks' = [locks EXCEPT !.incidentsLock = NoHolder,
                                  !.tasks[t].pc = IF found THEN "closePost"
                                                  ELSE "clear"]
  /\ UNCHANGED <<now, incidentTrackers>>
  /\ locksFrame

\* RemoveIncident, lines 274-283: the close requests were answered
CloseAnswered(t) ==
  /\ at(t, "closePost")
  /\ locks' = [locks EXCEPT !.tasks[t].pc = "clear"]
  /\ UNCHANGED <<now, incidentTrackers, incidents>>
  /\ locksFrame

\* ClearIncident, line 215: incidentTrackersLock.Lock()
ClearLock(t) ==
  /\ at(t, "clear")
  /\ trackersFree
  /\ locks' = [locks EXCEPT !.incidentTrackersLock.writer = t,
                            !.tasks[t].pc = "clearing"]
  /\ UNCHANGED <<now, incidentTrackers, incidents>>
  /\ locksFrame

\* ClearIncident, lines 217-221 and the deferred Unlock
ClearUnlock(t) ==
  /\ at(t, "clearing")
  /\ incidentTrackers' = clearTracker(incidentTrackers, locks.tasks[t].comp)
  /\ locks' = [locks EXCEPT !.incidentTrackersLock.writer = NoHolder,
                            !.tasks[t] = IdleTask]
  /\ UNCHANGED <<now, incidents>>
  /\ locksFrame

NextLocks ==
  \E t \in Tasks :
    \/ \E c \in {p.comp : p \in LockProbes} : TrackLock(t, c)
    \/ \E p \in LockProbes : TrackReport(t, p.eval)
    \/ PreAlertPosted(t)
    \/ CorrelateRLock(t)
    \/ CorrelateRUnlock(t)
    \/ CreateRequests(t)
    \/ \E ok \in BOOLEAN : CreateAnswered(t, ok)
    \/ CreateStore(t)
    \/ \E c \in {p.comp : p \in LockProbes} : RemoveLock(t, c)
    \/ RemoveUnlock(t)
    \/ CloseAnswered(t)
    \/ ClearLock(t)
    \/ ClearUnlock(t)

SpecLocks == InitLocks /\ [][NextLocks]_vars

\* -------------------------------------------- partition probe specification
\* One invocation of PartitionTopics.TestPartitionTopic with its consumer
\* goroutines (VerifyMessageByPulsarConsumer), the SendAsync callbacks, the
\* completion channel of capacity P and the wait group.  The broker decides
\* what each consumer receives and whether a send succeeds.
Partitions(p) == 0..(p.P - 1)
matchSignal == [Err |-> FALSE, InOrderDelivery |-> TRUE]
errorSignal == [Err |-> TRUE, InOrderDelivery |-> FALSE]
NoResult == [kind |-> "none", err |-> FALSE, args |-> <<>>]

InitPartition ==
  /\ now = 0
  /\ incidentTrackers = EmptyMap
  /\ incidents = EmptyMap
  /\ resolvers = {}
  /\ nextRequest = 1
  /\ calls = [s \in {1} |-> [pc |-> "idle"]]
  /\ config = [K8sEnabled |-> FALSE, genieKey |-> "", pdKey |-> ""]
  /\ evalCfg = NoPolicy
  /\ last = Event("init", "")
  /\ hist = [c \in Comps |-> NoHistory]
  /\ retry = NoRetry
  /\ probe = NoProbe
  /\ clients = NoClients
  /\ pubsub = NoPubSub
  /\ locks = NoLocks
  /\ metrics = NoMetrics
  /\ calc = NoCalc
  /\ partition = NoPartition

partitionFrame ==
  UNCHANGED <<now, incidentTrackers, incidents, resolvers, nextRequest, calls,
              config, evalCfg, last, hist, retry, probe, clients, pubsub,
              locks, metrics, calc>>

\* completeChan <- v by a goroutine: a send on a closed channel panics, a
\* send on a full channel waits
canSend(p) == p.closed \/ Len(p.completeChan) < p.P
sendOrPanic(p, v) ==
  IF p.closed THEN [p EXCEPT !.panicked = TRUE]
  ELSE [p EXCEPT !.completeChan = Append(@, v)]

\* lines 184-244: channel, wait group and deferred close; the producer; the
\* consumer goroutines are started and the messages handed to SendAsync.
\* Without a producer the call returns the error and the deferred function
\* closes the channel.
StartPartition(n, ok) ==
  /\ partition = NoPartition
  /\ partition' =
       [pc |-> IF ok THEN "wait" ELSE "returned",
        P |-> n,
        completeChan |-> <<>>,
        closed |-> ~ok,
        wg |-> 0,
        consumers |-> [i \in 0..(n - 1) |-> IF ok THEN "subscribe" ELSE "none"],
        toSend |-> [i \in 0..(n - 1) |-> errorSignal],
        callbacks |-> IF ok THEN 0..(n - 1) ELSE {},
        receivedCounter |-> 0,
        successfulCounter |-> 0,
        matches |-> {},
        panicked |-> FALSE,
        result |-> IF ok THEN NoResult
                   ELSE [kind |-> "producer", err |-> TRUE, args |-> <<>>]]
  /\ partitionFrame

\* pulsar.go lines 45-62: Subscribe; wg.Add(1) only once it succeeded
ConsumerSubscribe(i, ok) ==
  /\ partition.pc # "none"
  /\ ~partition.panicked
  /\ i \in Partitions(partition)
  /\ partition.consumers[i] = "subscribe"
  /\ partition' = IF ok
                  THEN [partition EXCEPT !.wg = @ + 1, !.consumers[i] = "receive"]
                  ELSE [partition EXCEPT !.consumers[i] = "done"]
  /\ partitionFrame

\* pulsar.go lines 64-89: one turn of the receive loop
ConsumerReceive(i, outcome) ==
  /\ partition.pc # "none"
  /\ ~partition.panicked
  /\ i \in Partitions(partition)
  /\ partition.consumers[i] = "receive"
  /\ partition' =
       CASE outcome = "expected" ->
              [partition EXCEPT !.consumers[i] = "send", !.toSend[i] = matchSignal]
         [] outcome = "error" ->
              [partition EXCEPT !.consumers[i] = "send", !.toSend[i] = errorSignal]
         [] outcome = "other" -> partition
         [] outcome = "expired" ->
              [partition EXCEPT !.consumers[i] = "done", !.wg = @ - 1]
  /\ partitionFrame

\* pulsar.go lines 74-77 and 82-86: the send on completeChan, then the
\* deferred wg.Done()
ConsumerSend(i) ==
  /\ partition.pc # "none"
  /\ ~partition.panicked
  /\ i \in Partitions(partition)
  /\ partition.consumers[i] = "send"
  /\ canSend(partition)
  /\ LET p == sendOrPanic(partition, partition.toSend[i])
     IN partition' = IF p.panicked THEN [p EXCEPT !.consumers[i] = "panic"]
                     ELSE [p EXCEPT !.consumers[i] = "done", !.wg = @ - 1]
  /\ partitionFrame

\* lines 232-243: the callback of a send; a failed send is reported on
\* completeChan
SendCallbackPartition(i, ok) ==
  /\ partition.pc # "none"
  /\ ~partition.panicked
  /\ i \in partition.callbacks
  /\ ~ok => canSend(partition)
  /\ LET p == [partition EXCEPT !.callbacks = @ \ {i}]
     IN partition' = IF ok THEN p ELSE sendOrPanic(p, errorSignal)
  /\ partitionFrame

successReached_byReceived(p) == p.receivedCounter >= p.P
\* line 263: the success test
successReached(p) == p.successfulCounter >= p.P

\* lines 250-265 and 271: a signal is taken from completeChan
SelectSignal ==
  /\ partition.pc = "wait"
  /\ ~partition.panicked
  /\ partition.completeChan # <<>>
  /\ LET signal == Head(partition.completeChan)
         p == [partition EXCEPT
                 !.completeChan = Tail(@),
                 !.receivedCounter = @ + 1,
                 !.successfulCounter =
                    IF ~signal.Err /\ signal.InOrderDelivery THEN @ + 1 ELSE @,
                 !.matches = IF ~signal.Err /\ signal.InOrderDelivery
                             THEN @ \cup {partition.receivedCounter + 1} ELSE @]
     IN partition' =
          IF successReached(p)
          THEN [p EXCEPT !.pc = "deferred",
                         !.result = [kind |-> "success", err |-> FALSE,
                                     args |-> <<>>]]
          ELSE IF p.receivedCounter < p.P THEN p
          ELSE [p EXCEPT !.pc = "deferred",
                         !.result = [kind |-> "exhausted", err |-> TRUE,
                                     args |-> <<p.successfulCounter, p.P>>]]
  /\ partitionFrame

\* lines 266-268: the 60 s ticker
SelectTimeout ==
  /\ partition.pc = "wait"
  /\ ~partition.panicked
  /\ partition' = [partition EXCEPT
       !.pc = "deferred",
       !.result = [kind |-> "timeout", err |-> TRUE,
                   args |-> <<partition.receivedCounter,
                              partition.successfulCounter, partition.P>>]]
  /\ partitionFrame

\* lines 189-192: the deferred wg.Wait() and close(completeChan)
DeferredClose ==
  /\ partition.pc = "deferred"
  /\ ~partition.panicked
  /\ partition.wg = 0
  /\ partition' = [partition EXCEPT !.pc = "returned", !.closed = TRUE]
  /\ partitionFrame

NextPartition ==
  \/ \E n \in 1..MaxPartitions, ok \in BOOLEAN : StartPartition(n, ok)
  \/ \E i \in 0..(MaxPartitions - 1), ok \in BOOLEAN : ConsumerSubscribe(i, ok)
  \/ \E i \in 0..(MaxPartitions - 1),
        outcome \in {"expected", "error", "other", "expired"} :
       ConsumerReceive(i, outcome)
  \/ \E i \in 0..(MaxPartitions - 1) : ConsumerSend(i)
  \/ \E i \in 0..(MaxPartitions - 1), ok \in BOOLEAN : SendCallbackPartition(i, ok)
  \/ SelectSignal
  \/ SelectTimeout
  \/ DeferredClose

SpecPartition == InitPartition /\ [][NextPartition]_vars

\* --------------------------------------- partition topic check specification
\* getPartition -> VerifyPartitionTopic: the list request and, when the topic
\* is not listed, the create request.  The admin endpoint and the token
\* supplier answer freely.
ListAnswers ==
  [transport : {TRUE}, status : {0}, body : {"none"}]
  \cup [transport : {FALSE}, status : {200, 404, 500},
        body : {"listed", "absent", "garbage"}]
CreateAnswers ==
  [transport : {TRUE}, status : {0}]
  \cup [transport : {FALSE}, status : {200, 204, 409, 500}]

\* part_010 lines 79-126: found and whether the error is non-nil; the
\* status branch returns the err of client.Do, which is nil there
GetPartitionTopic(tokenOk, answer) ==
  IF ~tokenOk THEN [found |-> FALSE, err |-> FALSE]
  ELSE IF answer.transport THEN [found |-> FALSE, err |-> TRUE]
  ELSE IF answer.status # 200 THEN [found |-> FALSE, err |-> FALSE]
  ELSE IF answer.body = "garbage" THEN [found |-> FALSE, err |-> TRUE]
  ELSE [found |-> answer.body = "listed", err |-> FALSE]

\* part_010 lines 129-166: whether the error is non-nil; the status branch
\* returns the err of client.Do, which is nil there
CreatePartitionTopic(tokenOk, answer) ==
  IF ~tokenOk THEN FALSE
  ELSE IF answer.transport THEN TRUE
  ELSE IF answer.status # 204 /\ answer.status # 409 THEN FALSE
  ELSE FALSE

\* part_010 lines 170-181: whether the error is non-nil
VerifyPartitionTopic(listToken, list, createToken, create) ==
  LET got == GetPartitionTopic(listToken, list)
  IN IF got.err THEN TRUE
     ELSE IF got.found THEN FALSE
     ELSE CreatePartitionTopic(createToken, create)

InitVerify ==
  /\ InitCommon
  /\ config = [K8sEnabled |-> FALSE, genieKey |-> "", pdKey |-> ""]
  /\ evalCfg = NoPolicy

calcFrame ==
  UNCHANGED <<now, incidentTrackers, incidents, resolvers, nextRequest, calls,
              config, evalCfg, last, hist, retry, probe, clients, pubsub,
              locks, partition, metrics>>

\* part_006 lines 379-391: getPartition returns what VerifyPartitionTopic
\* returned
getPartition(listToken, list, createToken, create) ==
  /\ calc' = [fn |-> "VerifyPartitionTopic",
              listToken |-> listToken, list |-> list,
              createToken |-> createToken, create |-> create,
              err |-> VerifyPartitionTopic(listToken, list, createToken, create)]
  /\ calcFrame

NextVerify ==
  \E listToken, createToken \in BOOLEAN,
     list \in ListAnswers, create \in CreateAnswers :
    getPartition(listToken, list, createToken, create)

SpecVerify == InitVerify /\ [][NextVerify]_vars

\* ------------------------------------------------ metric maps specification
\* PromGauge, PromCounter and PromLatencySum called by concurrent probe
\* loops for one (namespace, subsystem, name): the package maps metrics,
\* summaries and counters, and the default Prometheus registry.  A vector is
\* a number; the registry maps a series name to the vector registered for it.
MetricFns == {"PromGauge", "PromCounter", "PromLatencySum"}
\* the map a function starts with
firstMap(fn) == IF fn = "PromCounter" THEN "counters" ELSE "metrics"
IdleUpdater == [pc |-> "idle", fn |-> "none", map |-> "none"]

InitMetrics ==
  /\ now = 0
  /\ incidentTrackers = EmptyMap
  /\ incidents = EmptyMap
  /\ resolvers = {}
  /\ nextRequest = 1
  /\ calls = [s \in {1} |-> [pc |-> "idle"]]
  /\ config = [K8sEnabled |-> FALSE, genieKey |-> "", pdKey |-> ""]
  /\ evalCfg = NoPolicy
  /\ last = Event("init", "")
  /\ hist = [c \in Comps |-> NoHistory]
  /\ retry = NoRetry
  /\ probe = NoProbe
  /\ clients = NoClients
  /\ pubsub = NoPubSub
  /\ locks = NoLocks
  /\ partition = NoPartition
  /\ calc = NoCalc
  /\ metrics = [pc |-> "run",
                maps |-> [m \in {"metrics", "summaries", "counters"} |-> 0],
                registry |-> [m \in {"metrics", "summaries", "counters"} |-> 0],
                made |-> 0,
                built |-> [m \in {"metrics", "summaries", "counters"} |-> 0],
                updated |-> {},
                panicked |-> FALSE,
                tasks |-> [t \in Tasks |-> IdleUpdater]]

metricsFrame ==
  UNCHANGED <<now, incidentTrackers, incidents, resolvers, nextRequest, calls,
              config, evalCfg, last, hist, retry, probe, clients, pubsub,
              locks, partition, calc>>

\* the map read of lines 121, 134, 148 and 157, and on a hit the update of
\* the vector found
lookup(mt, t) ==
  LET m == mt.tasks[t].map
      next == IF mt.tasks[t].fn = "PromLatencySum" /\ m = "metrics"
              THEN [mt.tasks[t] EXCEPT !.pc = "lookup", !.map = "summaries"]
              ELSE IdleUpdater
  IN IF mt.maps[m] # 0
     THEN [mt EXCEPT !.updated = @ \cup {<<m, mt.maps[m]>>}, !.tasks[t] = next]
     ELSE [mt EXCEPT !.tasks[t].pc = "register"]

\* lines 124-127, 137-140, 151-154 and 160-173: a new vector, Register (a
\* name already registered is refused with an error that is dropped) or
\* MustRegister (the refusal panics), the update, the map write
register(mt, t) ==
  LET m == mt.tasks[t].map
      id == mt.made + 1
      refused == mt.registry[m] # 0
      next == IF mt.tasks[t].fn = "PromLatencySum" /\ m = "metrics"
              THEN [mt.tasks[t] EXCEPT !.pc = "lookup", !.map = "summaries"]
              ELSE IdleUpdater
  IN IF refused /\ m = "summaries"
     THEN [mt EXCEPT !.made = id, !.built[m] = @ + 1, !.panicked = TRUE]
     ELSE [mt EXCEPT !.made = id,
                     !.built[m] = @ + 1,
                     !.registry[m] = IF refused THEN @ ELSE id,
                     !.updated = @ \cup {<<m, id>>},
                     !.maps[m] = id,
                     !.tasks[t] = next]

\* a probe loop calls one of the three functions
PromCall(t, fn) ==
  /\ metrics.pc = "run"
  /\ ~metrics.panicked
  /\ metrics.tasks[t].pc = "idle"
  /\ metrics' = [metrics EXCEPT
       !.tasks[t] = [pc |-> "lookup", fn |-> fn, map |-> firstMap(fn)]]
  /\ metricsFrame

PromLookup(t) ==
  /\ metrics.pc = "run"
  /\ ~metrics.panicked
  /\ metrics.tasks[t].pc = "lookup"
  /\ metrics' = lookup(metrics, t)
  /\ metricsFrame

PromRegister(t) ==
  /\ metrics.pc = "run"
  /\ ~metrics.panicked
  /\ metrics.tasks[t].pc = "register"
  /\ metrics' = register(metrics, t)
  /\ metricsFrame

NextMetrics ==
  \E t \in Tasks :
    \/ \E fn \in MetricFns : PromCall(t, fn)
    \/ PromLookup(t)
    \/ PromRegister(t)

SpecMetrics == InitMetrics /\ [][NextMetrics]_vars

\* ------------------------------------------------ cluster health (k8s)
\* src/k8s/clientset.go: the Client holds, for each workload kind, the
\* declared replica count (UpdateReplicas) and the count of running pods
\* (WatchPods); EvalHealth turns them into a ClusterStatusCode and stores it
\* in the Client.  The health text EvalHealth also returns is left out.
MaxReplicas == 3
MaxBrokers == 2
\* lines 49-58
TotalDown == 0
OK == 1
PartialReady == 2
\* lines 86-98: a StatefulSet or Deployment with its Replicas and Instances
Workloads(max) == [Replicas : 0..max, Instances : 0..max]
\* lines 61-73: the Client after GetK8sClient, UpdateReplicas and WatchPods
K8sClients ==
  [Zookeeper : Workloads(MaxReplicas), Bookkeeper : Workloads(MaxReplicas),
   Broker : Workloads(MaxBrokers), BrokerSts : Workloads(MaxBrokers),
   Proxy : Workloads(MaxBrokers)]

\* lines 298-305
updateStatus(original, current) ==
  IF current = TotalDown \/ original = TotalDown THEN TotalDown
  ELSE IF current = PartialReady \/ original = PartialReady THEN PartialReady
  ELSE current

\* lines 245-296: the ClusterStatus EvalHealth returns
EvalHealth(c) ==
  LET offline(w) == w.Replicas - w.Instances
      s0 == OK
      s1 == IF c.Zookeeper.Instances < 2 THEN TotalDown
            ELSE IF c.Zookeeper.Instances = 2 THEN PartialReady
            ELSE s0
      s2 == IF c.Bookkeeper.Instances < 2 THEN TotalDown
            ELSE IF c.Bookkeeper.Instances # c.Bookkeeper.Replicas
                 THEN updateStatus(s1, PartialReady)
            ELSE s1
      s3 == IF c.Broker.Instances + c.BrokerSts.Instances = 0 THEN TotalDown
            ELSE IF c.Broker.Instances < c.Broker.Replicas
                 THEN updateStatus(s2, PartialReady)
            ELSE s2
      s4 == IF c.BrokerSts.Replicas > 0 /\ c.BrokerSts.Instances = 0
            THEN TotalDown
            ELSE IF offline(c.BrokerSts) > 0 THEN TotalDown
            ELSE s3
      s5 == IF c.Proxy.Replicas > 0 /\ c.Proxy.Instances = 0 THEN TotalDown
            ELSE IF c.Proxy.Replicas > 0
                    /\ c.Proxy.Instances < c.Proxy.Replicas
                 THEN updateStatus(s4, PartialReady)
            ELSE s4
  IN [ZookeeperOfflineInstances |-> offline(c.Zookeeper),
      BookkeeperOfflineInstances |-> offline(c.Bookkeeper),
      BrokerOfflineInstances |-> offline(c.Broker),
      BrokerStsOfflineInstances |-> offline(c.BrokerSts),
      ProxyOfflineInstances |-> offline(c.Proxy),
      Status |-> s5]

\* everything but calc at rest
calcOnly ==
  /\ now = 0
  /\ incidentTrackers = EmptyMap
  /\ incidents = EmptyMap
  /\ resolvers = {}
  /\ nextRequest = 1
  /\ calls = [s \in {1} |-> [pc |-> "idle"]]
  /\ config = [K8sEnabled |-> FALSE, genieKey |-> "", pdKey |-> ""]
  /\ evalCfg = NoPolicy
  /\ last = Event("init", "")
  /\ hist = [c \in Comps |-> NoHistory]
  /\ retry = NoRetry
  /\ probe = NoProbe
  /\ clients = NoClients
  /\ pubsub = NoPubSub
  /\ locks = NoLocks
  /\ partition = NoPartition
  /\ metrics = NoMetrics

\* line 130: Status starts as the zero value, TotalDown
InitHealth ==
  /\ calcOnly
  /\ \E c \in K8sClients :
       calc = [fn |-> "Client", c |-> c, Status |-> TotalDown]

\* cluster-monitor.go line 73: client.EvalHealth(); line 293 stores the status
evalHealth ==
  /\ calc.fn = "Client"
  /\ calc' = [calc EXCEPT !.fn = "EvalHealth",
                          !.Status = EvalHealth(calc.c).Status]
  /\ calcFrame

NextHealth == evalHealth

SpecHealth == InitHealth /\ [][NextHealth]_vars

\* ------------------------------------------------ message payloads
\* part_005: AllMsgPayloads builds the payloads of one test and GetMessageID
\* reads the index back.  A string is a sequence of characters.
MaxPrefixLen == 2
MaxSizes == 2
MaxNumOfMsg == 3
\* line 19
PrefixDelimiter == "-"
Digits == <<"0", "1", "2", "3", "4", "5", "6", "7", "8", "9">>
\* util.go line 220: the letters RandStringBytes picks from (two of them)
Letters == {"m", "x"}
\* the characters a prefix is written with
PrefixChars == {"m", "1", PrefixDelimiter}
Strings(chars, max) == UNION {[1..n -> chars] : n \in 0..max}
\* a payload size of the configuration, "<num><unit>"
SizeStrings == {[num |-> 0, unit |-> ""], [num |-> 5, unit |-> "B"],
                [num |-> 8, unit |-> "b"]}

\* lines 77-99
NumOfBytes(size) ==
  IF size.unit \in {"mb", "MB"} THEN size.num * 1024 * 1024
  ELSE IF size.unit \in {"kb", "KB"} THEN size.num * 1024
  ELSE size.num

\* fmt.Sprintf("%d", i) for i >= 0
RECURSIVE Itoa(_)
Itoa(i) ==
  IF i < 10 THEN <<Digits[i + 1]>> ELSE Itoa(i \div 10) \o <<Digits[(i % 10) + 1]>>

\* strconv.Atoi of a string without sign: NotANumber stands for the error
digitValue(ch) == CHOOSE d \in 0..9 : Digits[d + 1] = ch
RECURSIVE atoiFrom(_, _)
atoiFrom(str, acc) ==
  IF str = <<>> THEN acc
  ELSE atoiFrom(Tail(str), acc * 10 + digitValue(Head(str)))
Atoi(str) ==
  IF str = <<>> \/ \E k \in 1..Len(str) : \A d \in 1..10 : Digits[d] # str[k]
  THEN NotANumber
  ELSE atoiFrom(str, 0)

\* strings.Split(str, PrefixDelimiter)
RECURSIVE Split(_)
Split(str) ==
  IF \A k \in 1..Len(str) : str[k] # PrefixDelimiter THEN <<str>>
  ELSE LET k == CHOOSE j \in 1..Len(str) :
                  /\ str[j] = PrefixDelimiter
                  /\ \A h \in 1..(j - 1) : str[h] # PrefixDelimiter
       IN <<SubSeq(str, 1, k - 1)>> \o Split(SubSeq(str, k + 1, Len(str)))
\* line 144 as GetMessageID reads it: parts[0], len(parts) and parts[1]
splitParts(str) ==
  LET parts == Split(str)
  IN [head |-> parts[1], parts |-> Len(parts),
      num |-> IF Len(parts) < 2 THEN NotANumber ELSE Atoi(parts[2])]

\* lines 55-67: the payload and the size GenPayload returns; fill is the
\* letter util.RandStringBytes draws
GenPayload(prefix, size, fill) ==
  LET numOfBytes == NumOfBytes(size)
  IN IF Len(prefix) > numOfBytes
     THEN [bytes |-> prefix, size |-> numOfBytes]
     ELSE [bytes |-> prefix \o [k \in 1..(numOfBytes - Len(prefix)) |-> fill],
           size |-> numOfBytes - Len(prefix)]

\* lines 106-140; payloads[i] of the code is payloads[i + 1] here
AllMsgPayloads(prefix, payloadSizes, numOfMsg, fill) ==
  LET given == Len(payloadSizes)
      actualNumOfMsg == IF given > numOfMsg THEN given
                        ELSE IF numOfMsg > 1 THEN numOfMsg
                        ELSE 1
      sizes == IF given = 0 THEN <<[num |-> 0, unit |-> ""]>> ELSE payloadSizes
      specifiedSizes == Len(sizes)
      gen(i) ==
        GenPayload(prefix \o <<PrefixDelimiter>> \o Itoa(i) \o <<PrefixDelimiter>>,
                   sizes[IF i < specifiedSizes THEN i + 1 ELSE specifiedSizes],
                   fill)
      biggest == CHOOSE m \in {Len(prefix)} \cup
                              {gen(i).size : i \in 0..(actualNumOfMsg - 1)} :
                   /\ m >= Len(prefix)
                   /\ \A i \in 0..(actualNumOfMsg - 1) : m >= gen(i).size
  IN [payloads |-> [k \in 1..actualNumOfMsg |-> gen(k - 1).bytes],
      maxPayloadSize |-> biggest]

\* part_007 lines 123-124 and part_006 line 284: the prefix, the payload
\* sizes and the number of messages of a test
InitPayloads ==
  /\ calcOnly
  /\ \E prefix \in Strings(PrefixChars, MaxPrefixLen),
        payloadSizes \in Strings(SizeStrings, MaxSizes),
        numOfMsg \in 0..MaxNumOfMsg :
       calc = [fn |-> "TopicCfg", prefix |-> prefix,
               payloadSizes |-> payloadSizes, numOfMsg |-> numOfMsg]

\* part_006 line 285
allMsgPayloads(fill) ==
  /\ calc.fn = "TopicCfg"
  /\ calc' = [fn |-> "AllMsgPayloads", prefix |-> calc.prefix,
              payloadSizes |-> calc.payloadSizes, numOfMsg |-> calc.numOfMsg,
              result |-> AllMsgPayloads(calc.prefix, calc.payloadSizes,
                                        calc.numOfMsg, fill)]
  /\ calcFrame

NextPayloads == \E fill \in Letters : allMsgPayloads(fill)

SpecPayloads == InitPayloads /\ [][NextPayloads]_vars

\* ------------------------------------------------ silence window
\* slack.go VerboseAlert over the package variable componentsAlert, called
\* by the monitors: every caller passes the same silence window for a
\* component each time.  Instants and windows are in ticks.
\* slack.go line 51
LogOnly == 0 - Second
\* nil, what a Go map gives for an absent key
Nil == [lastAlertTime |-> 0 - 1, silenceWindow |-> LogOnly]
SilenceComps == {"c1", "c2", "c3"}
silenceWindowOf(component) ==
  IF component = "c1" THEN Second ELSE IF component = "c2" THEN 0 ELSE LogOnly

\* sycmap.go SyncMap.Replace: the map afterwards and the value returned
Replace(data, key, value) ==
  [data |-> MapPut(data, key, value),
   previous |-> IF key \in DOMAIN data THEN data[key] ELSE Nil]

\* AlertVerbosity.MustAlert at instant at0
MustAlert(av, at0) == at0 - av.lastAlertTime > av.silenceWindow

InitSilence ==
  /\ calcOnly
  /\ \E verbose \in BOOLEAN :
       calc = [fn |-> "VerboseAlert", Verbose |-> verbose,
               componentsAlert |-> EmptyMap,
               sent |-> [c \in SilenceComps |-> {}], call |-> {}]

\* VerboseAlert, lines 62-83.  sent: the instants at which Alert was called
\* for the component; call: the last call, with the instants before it.
VerboseAlertCall(component, silenceWindow) ==
  /\ calc.fn = "VerboseAlert"
  /\ LET r == Replace(calc.componentsAlert, component,
                      [lastAlertTime |-> now, silenceWindow |-> silenceWindow])
         alerted ==
           IF silenceWindow < 0 THEN FALSE
           ELSE IF calc.Verbose THEN TRUE
           ELSE r.previous = Nil \/ MustAlert(r.previous, now)
     IN calc' = [calc EXCEPT
                   !.componentsAlert =
                      IF silenceWindow < 0 \/ calc.Verbose THEN @ ELSE r.data,
                   !.sent[component] = IF alerted THEN @ \cup {now} ELSE @,
                   !.call = {[component |-> component,
                              silenceWindow |-> silenceWindow, at |-> now,
                              alerted |-> alerted,
                              sentBefore |-> calc.sent[component]]}]
  /\ calcFrame

NextSilence ==
  \/ \E c \in SilenceComps : VerboseAlertCall(c, silenceWindowOf(c))
  \/ Tick(1, MaxSteps)

SpecSilence == InitSilence /\ [][NextSilence]_vars

\* ------------------------------------------------ synchronized map
\* sycmap.go SyncMap, method by method and statement by statement, called by
\* concurrent tasks.  The values are those of componentsAlert, the one
\* SyncMap of the program.  A write to a Go map while another task is inside
\* a method is a data race: the write is stored, or lost, or the runtime
\* ends the process ("concurrent map writes").
MapKeys == {"k1", "k2"}
MapValues == {[lastAlertTime |-> v, silenceWindow |-> 0] : v \in {0, 1}}
IdleMapTask ==
  [pc |-> "idle", op |-> "", key |-> "", value |-> Nil, ret |-> Nil, size |-> 0]
mapTask(t) == calc.tasks[t]
\* the task is between the lock and the unlock of a method
insideMethod(t) == mapTask(t).pc \in {"body", "stored", "read", "unlock"}
\* the outcomes of a write by task t
WriteOutcomes(t) ==
  IF \E u \in Tasks \ {t} : insideMethod(u)
    THEN {"stored", "lost", "fatal"} ELSE {"stored"}
\* sm.data[key]
mapValue(data, key) == Replace(data, key, Nil).previous

\* line 33: NewSycMap.  written: the last value written under each key;
\* done: the keys of the Put and Replace calls that returned.
InitSyncMap ==
  /\ calcOnly
  /\ calc = [fn |-> "SyncMap", mu |-> [writer |-> NoHolder, readers |-> {}],
             data |-> EmptyMap, written |-> EmptyMap, done |-> {},
             fatal |-> FALSE, tasks |-> [t \in Tasks |-> IdleMapTask]]

running(t, pc, ops) ==
  /\ calc.fn = "SyncMap"
  /\ ~calc.fatal
  /\ mapTask(t).pc = pc
  /\ mapTask(t).op \in ops

\* a task calls a method
MapCall(t, op, key, value) ==
  /\ running(t, "idle", {""})
  /\ calc' = [calc EXCEPT !.tasks[t] =
                [IdleMapTask EXCEPT !.pc = "lock", !.op = op, !.key = key,
                                    !.value = value]]
  /\ calcFrame

canLock_always(mu, write) == TRUE
\* sync.RWMutex: Lock waits for the writer and the readers, RLock for the
\* writer
canLock(mu, write) ==
  /\ mu.writer = NoHolder
  /\ write => mu.readers = {}

\* lines 41, 50: sm.Lock(); lines 59, 67, 78: sm.RLock()
MapLock(t) ==
  /\ running(t, "lock", {"Put", "Replace", "Get", "Size"})
  /\ LET write == mapTask(t).op \in {"Put", "Replace"}
     IN /\ canLock(calc.mu, write)
        /\ calc' = [calc EXCEPT
                      !.mu = IF write THEN [@ EXCEPT !.writer = t]
                             ELSE [@ EXCEPT !.readers = @ \cup {t}],
                      !.tasks[t].pc = "body"]
  /\ calcFrame

\* sm.data[key] = value by task t with the given outcome
mapStore(c, t, outcome) ==
  LET key == c.tasks[t].key
      value == c.tasks[t].value
      w == [c EXCEPT !.written = MapPut(@, key, value)]
  IN IF outcome = "fatal" THEN [c EXCEPT !.fatal = TRUE]
     ELSE IF outcome = "lost" THEN w
     ELSE [w EXCEPT !.data = Replace(@, key, value).data]

\* line 44: sm.data[key] = value
PutStore(t, outcome) ==
  /\ running(t, "body", {"Put"})
  /\ outcome \in WriteOutcomes(t)
  /\ calc' = [mapStore(calc, t, outcome) EXCEPT !.tasks[t].pc = "stored"]
  /\ calcFrame

\* line 45: return sm.data[key]
PutReturn(t) ==
  /\ running(t, "stored", {"Put"})
  /\ calc' = [calc EXCEPT !.tasks[t].ret = mapValue(calc.data, mapTask(t).key),
                          !.tasks[t].pc = "unlock"]
  /\ calcFrame

\* line 52: previous := sm.data[key]
ReplaceRead(t) ==
  /\ running(t, "body", {"Replace"})
  /\ calc' = [calc EXCEPT
                !.tasks[t].ret =
                   Replace(calc.data, mapTask(t).key, mapTask(t).value).previous,
                !.tasks[t].pc = "read"]
  /\ calcFrame

\* lines 53-54: sm.data[key] = value; return previous
ReplaceStore(t, outcome) ==
  /\ running(t, "read", {"Replace"})
  /\ outcome \in WriteOutcomes(t)
  /\ calc' = [mapStore(calc, t, outcome) EXCEPT !.tasks[t].pc = "unlock"]
  /\ calcFrame

\* line 62: return sm.data[key]
GetReturn(t) ==
  /\ running(t, "body", {"Get"})
  /\ calc' = [calc EXCEPT !.tasks[t].ret = mapValue(calc.data, mapTask(t).key),
                          !.tasks[t].pc = "unlock"]
  /\ calcFrame

\* line 80: return len(sm.data)
SizeReturn(t) ==
  /\ running(t, "body", {"Size"})
  /\ calc' = [calc EXCEPT !.tasks[t].size = Cardinality(DOMAIN calc.data),
                          !.tasks[t].pc = "unlock"]
  /\ calcFrame

\* the deferred sm.Unlock() or sm.RUnlock() as the method returns
MapUnlock(t) ==
  /\ running(t, "unlock", {"Put", "Replace", "Get", "Size"})
  /\ LET write == mapTask(t).op \in {"Put", "Replace"}
     IN calc' = [calc EXCEPT
                   !.mu = IF write THEN [@ EXCEPT !.writer = NoHolder]
                          ELSE [@ EXCEPT !.readers = @ \ {t}],
                   !.done = IF write THEN @ \cup {mapTask(t).key} ELSE @,
                   !.tasks[t] = IdleMapTask]
  /\ calcFrame

NextSyncMap ==
  \E t \in Tasks :
    \/ \E op \in {"Put", "Replace"}, key \in MapKeys, value \in MapValues :
         MapCall(t, op, key, value)
    \/ \E key \in MapKeys : MapCall(t, "Get", key, Nil)
    \/ MapCall(t, "Size", "", Nil)
    \/ MapLock(t)
    \/ \E outcome \in {"stored", "lost", "fatal"} : PutStore(t, outcome)
    \/ PutReturn(t)
    \/ ReplaceRead(t)
    \/ \E outcome \in {"stored", "lost", "fatal"} : ReplaceStore(t, outcome)
    \/ GetReturn(t)
    \/ SizeReturn(t)
    \/ MapUnlock(t)

SpecSyncMap == InitSyncMap /\ [][NextSyncMap]_vars

\* ------------------------------------------------ tracker-level claims
lastIsTrack == last.op = "track"
lastTracker == incidentTrackers[last.comp]
ceilingOnly == evalCfg.Ceiling > 0 /\ evalCfg.CeilingInMovingWindow = 0
windowOnly == evalCfg.Ceiling = 0 /\ evalCfg.CeilingInMovingWindow > 0
\* failures since the last reset that are younger than w ticks at the last call
recentFailures(w) == Cardinality({v \in last.seen : last.at - v < w})
\* the same, counting a failure that is exactly w ticks old as well
recentFailuresInclusive(w) == Cardinality({v \in last.seen : last.at - v <= w})

\* C1 (as stated): with Ceiling = C > 0 and the window threshold off, in a
\* run of consecutive trackIncident calls that starts without a tracker the
\* calls returning true are exactly the C-th, 2C-th, ..., and the (C+1)-th
\* call returns false.
C1_Original ==
  (ceilingOnly /\ lastIsTrack /\ last.run > 0) =>
     /\ last.rc <=> (last.run % evalCfg.Ceiling = 0)
     /\ last.run = evalCfg.Ceiling + 1 => ~last.rc

\* C1 (amended): the calls returning true are exactly the C-th, 2C-th, ...;
\* the (C+1)-th call returns false when C >= 2 (with C = 1 every call
\* escalates).
C1_Amended ==
  (ceilingOnly /\ lastIsTrack /\ last.run > 0) =>
     /\ last.rc <=> (last.run % evalCfg.Ceiling = 0)
     /\ (evalCfg.Ceiling >= 2 /\ last.run = evalCfg.Ceiling + 1) => ~last.rc

C1_Witness ==
  /\ ceilingOnly /\ evalCfg.Ceiling = 2 /\ lastIsTrack
  /\ last.run = 4 /\ last.rc

\* C2 (as stated): with Ceiling = 0, MovingWindowSeconds = W and
\* CeilingInMovingWindow = K > 0, a trackIncident call returns true exactly
\* when it is the K-th failure since the last reset inside the last W
\* seconds, and then the tracker is reset.
C2_Original ==
  (windowOnly /\ lastIsTrack /\ last.run > 0) =>
     LET w == evalCfg.MovingWindowSeconds * Second
     IN /\ last.rc => recentFailuresInclusive(w) >= evalCfg.CeilingInMovingWindow
        /\ recentFailures(w) >= evalCfg.CeilingInMovingWindow => last.rc
        /\ last.rc => (lastTracker.Counters = 0 /\ lastTracker.Alerts = {})

\* C2 (amended): the same with the window the tracker really uses:
\* MovingWindowSeconds = 0 is read as 1 second, and a failure counts while
\* its age is strictly less than the window.
C2_Amended ==
  (windowOnly /\ lastIsTrack /\ last.run > 0) =>
     LET w == IF evalCfg.MovingWindowSeconds = 0 THEN Second
              ELSE evalCfg.MovingWindowSeconds * Second
     IN /\ last.rc <=> (recentFailures(w) = evalCfg.CeilingInMovingWindow)
        /\ recentFailures(w) <= evalCfg.CeilingInMovingWindow
        /\ last.rc => (lastTracker.Counters = 0 /\ lastTracker.Alerts = {})

\* an escalation on the window threshold after an older failure has expired
C2_Witness ==
  /\ windowOnly /\ evalCfg.CeilingInMovingWindow = 2 /\ lastIsTrack
  /\ last.run = 3 /\ last.rc /\ Cardinality(last.seen) = 3

\* C3: with Ceiling = C > 0 and the window threshold off, after an
\* escalation followed by any number of ClearIncident calls the next
\* escalation is exactly the C-th of the following consecutive
\* trackIncident calls.
C3_Claim ==
  (ceilingOnly /\ lastIsTrack /\ last.esc >= 1 /\ last.esc <= evalCfg.Ceiling) =>
     (last.rc <=> (last.esc = evalCfg.Ceiling))

\* C4: every registered tracker has Counters >= 0.
C4_Claim ==
  \A c \in DOMAIN incidentTrackers : incidentTrackers[c].Counters >= 0

clearStepOn(c) == last'.op = "clear" /\ last'.comp = c /\ c \in DOMAIN incidentTrackers

\* C5 (as stated): ClearIncident never removes or resets the Alerts a
\* component has accumulated.
C5_Original ==
  [][\A c \in Comps : clearStepOn(c) =>
        /\ c \in DOMAIN incidentTrackers'
        /\ incidentTrackers'[c].Alerts = incidentTrackers[c].Alerts]_vars

\* C5 (amended): ClearIncident leaves Alerts untouched when the tracker
\* survives the call (the decremented Counters is not 0), and then the
\* failures inside the window keep counting toward CeilingInMovingWindow;
\* when the decrement brings Counters to 0 the tracker is removed together
\* with its Alerts.
C5_Amended ==
  /\ [][\A c \in Comps : clearStepOn(c) =>
          IF incidentTrackers[c].Counters = 1
            THEN c \notin DOMAIN incidentTrackers'
            ELSE /\ c \in DOMAIN incidentTrackers'
                 /\ incidentTrackers'[c].Alerts = incidentTrackers[c].Alerts]_vars
  /\ [](\A c \in DOMAIN incidentTrackers :
          {v \in hist[c].fails : now - v < incidentTrackers[c].EvalWindowSeconds}
             \subseteq incidentTrackers[c].Alerts)

\* a successful probe between failures that did not reset the window
C5_Witness ==
  /\ last.op = "clear" /\ last.comp \in DOMAIN incidentTrackers
  /\ Cardinality(lastTracker.Alerts) = 2 /\ lastTracker.Counters = 1

\* ------------------------------------------------- program-level claims
lastIsReport == last.op = "report"
zeroPolicy(eval) == eval.Ceiling = 0 /\ eval.CeilingInMovingWindow = 0
recentTrackers ==
  {c \in DOMAIN incidentTrackers : now - incidentTrackers[c].LastUpdatedAt < Minute}

\* C6 (as stated): a ReportIncident call of a probe whose policy has
\* Ceiling = 0 and CeilingInMovingWindow = 0 never leads to CreateIncident.
C6_Original ==
  (lastIsReport /\ zeroPolicy(last.eval)) => ~last.create

\* C6 (amended): such a call never escalates through the tracker; outside
\* in-cluster mode it never leads to CreateIncident, and in in-cluster mode
\* only when at least 3 trackers were updated within the last minute.
C6_Amended ==
  (lastIsReport /\ zeroPolicy(last.eval)) =>
     /\ ~last.tracked /\ ~last.rc
     /\ last.create => (config.K8sEnabled /\ Cardinality(recentTrackers) >= 3)

C6_Witness ==
  /\ lastIsReport /\ zeroPolicy(last.eval) /\ last.create
  /\ Cardinality(DOMAIN incidentTrackers) = 3

\* C7: with Ceiling = 0 and CeilingInMovingWindow = K > 0 every
\* ReportIncident call consults the tracker.
C7_Claim ==
  (lastIsReport /\ last.eval.Ceiling = 0 /\ last.eval.CeilingInMovingWindow > 0)
     => last.tracked

\* C8: the alertID of a component's record is never overwritten once it is
\* non-empty.
C8_Claim ==
  [][\A c \in (DOMAIN incidents) \cap (DOMAIN incidents') :
        incidents[c].alertID # NoAlertID
           => incidents'[c].alertID = incidents[c].alertID]_vars

removeStep(g) == calls[g].pc = "idle" /\ calls'[g].pc = "clearTracker"
trackerStep(g) == calls[g].pc = "clearTracker" /\ calls'[g].pc = "idle"
primaryClose(sent) == {m \in sent : m.to = "opsgenie" /\ m.op = "close"}
resolvable(c) == c \in DOMAIN incidents /\ incidents[c].alertID # NoAlertID
\* the tracker's clear was applied to component c in this step
clearInvoked(c) ==
  c \in DOMAIN incidentTrackers =>
     \/ c \notin DOMAIN incidentTrackers'
     \/ incidentTrackers'[c].Counters = incidentTrackers[c].Counters - 1

\* C9 (as stated): ClearIncident posts a close request to the primary
\* provider iff a record with a non-empty alertID exists; the record is
\* removed in every case and the tracker's clear is invoked.
C9_Original ==
  [][\A g \in Slots :
       /\ removeStep(g) =>
            /\ (primaryClose(calls'[g].sent) # {}) <=> resolvable(calls'[g].comp)
            /\ calls'[g].comp \notin DOMAIN incidents'
       /\ trackerStep(g) => clearInvoked(calls[g].comp)]_vars

\* C9 (amended): the close request goes to the primary provider iff such a
\* record exists and the primary provider's key is configured; RemoveIncident
\* deletes the record in every case and the tracker's clear follows.
C9_Amended ==
  [][\A g \in Slots :
       /\ removeStep(g) =>
            /\ (primaryClose(calls'[g].sent) # {})
                 <=> (resolvable(calls'[g].comp) /\ config.genieKey # "")
            /\ \A m \in primaryClose(calls'[g].sent) :
                 m.id = incidents[calls'[g].comp].alertID
            /\ calls'[g].comp \notin DOMAIN incidents'
       /\ trackerStep(g) => clearInvoked(calls[g].comp)]_vars

\* a close request to the primary provider has just been sent
C9_Witness ==
  \E g \in Slots : calls[g].pc = "clearTracker" /\ primaryClose(calls[g].sent) # {}

\* C10: ClearIncident on a component without an open record sends nothing
\* and leaves the incident registry as it was; without a tracker for the
\* component the tracker registry stays as it was, too.
C10_NoRecordNoOp ==
  [][\A g \in Slots :
       /\ (removeStep(g) /\ calls'[g].comp \notin DOMAIN incidents) =>
            /\ calls'[g].sent = {}
            /\ incidents' = incidents
            /\ incidentTrackers' = incidentTrackers
       /\ (trackerStep(g) /\ calls[g].comp \notin DOMAIN incidentTrackers) =>
            /\ incidentTrackers' = incidentTrackers
            /\ incidents' = incidents]_vars

\* ClearIncident runs on a component that never had a record or a tracker
\* while both providers are configured
C10_Witness ==
  \E g \in Slots :
    /\ calls[g].pc = "clearTracker" /\ calls[g].sent = {}
    /\ incidents = EmptyMap /\ nextRequest = 1 /\ incidentTrackers = EmptyMap
    /\ config.genieKey # "" /\ config.pdKey # ""

\* the provider did not accept the request: transport error or status 3xx-5xx
refused(answer) == answer.transport \/ (answer.status >= 300 /\ answer.status <= 599)

\* C11: when the primary provider answers the create-alert POST with a
\* transport error or a status in 3xx-5xx, CreateOpsGenieAlert returns an
\* error, inserts no record and spawns no resolver task.
C11_Claim ==
  [][(last'.op = "createOG" /\ refused(last'.answer)) =>
        /\ last'.err
        /\ incidents' = incidents
        /\ resolvers' = resolvers]_vars

\* ---------------------------------------------------- resolver claims
RECURSIVE doubling(_, _)
\* the waits 200 ms, 400 ms, 800 ms, ... : does seq follow them from first on
doubling(seq, first) ==
  seq = <<>> \/ (Head(seq) = first /\ doubling(Tail(seq), 2 * first))

\* C12: the resolver waits 200 ms before its first lookup and doubles the
\* wait before each further lookup, stops at the first successful lookup,
\* starts no lookup once 4 s have elapsed since it was spawned, makes
\* finitely many lookups (at most 5), and leaves the record unchanged when it
\* gives up.
C12_Claim ==
  /\ [](retry.pc # "none" =>
          /\ doubling(retry.slept, 200)
          /\ \A i \in 1..Len(retry.started) : retry.started[i] < 4000
          /\ Len(retry.started) <= 5)
  /\ [][/\ retry.pc = "found" => retry' = retry
        /\ retry'.pc = "gaveup" => incidents' = incidents]_vars

\* ------------------------------------------------- provider failures
createStep == last'.op \in {"createOG", "createPD"}

\* the registry that the tracker half of ClearIncident leaves for component c
clearedAs(before, after, c) ==
  IF c \notin DOMAIN before THEN after = before
  ELSE /\ \A d \in (DOMAIN before) \ {c} : d \in DOMAIN after /\ after[d] = before[d]
       /\ (DOMAIN after) \ {c} = (DOMAIN before) \ {c}
       /\ IF before[c].Counters = 1 THEN c \notin DOMAIN after
          ELSE /\ c \in DOMAIN after
               /\ after[c] = [before[c] EXCEPT !.Counters = @ - 1]

\* C13: a provider failure does not alter the tracker registry: the create
\* calls leave it as trackIncident left it whether they succeed or fail, and
\* the tracker half of ClearIncident applies the same clear whether the
\* close requests succeeded or failed.
C13_TrackersIgnoreProviders ==
  [][/\ createStep => incidentTrackers' = incidentTrackers
     /\ \A g \in Slots : trackerStep(g) =>
           clearedAs(incidentTrackers, incidentTrackers', calls[g].comp)]_vars

\* an escalation whose create call failed at the primary provider and
\* succeeded at the secondary one, then a ClearIncident whose close requests
\* failed: its tracker half has just run
C13_Witness ==
  /\ last.op = "cleared" /\ last.err
  /\ config.genieKey # "" /\ nextRequest = 1
  /\ DOMAIN incidentTrackers = {"c1"}
  /\ incidentTrackers["c1"].Counters = 0 - 1

\* ------------------------------------------------- secondary provider
\* the record of component c is the one CreatePDIncident stored after a
\* trigger event with dedup key alias, whatever alertID it holds by now
triggered(c) ==
  /\ config.pdKey # ""
  /\ c \in DOMAIN incidents
  /\ incidents[c].requestID = AliasOf(c)

\* C38: after a trigger event with dedup key alias at the secondary provider
\* the next ClearIncident of the component sends a resolve event with that
\* dedup key, also when the resolver of the primary provider has stored its
\* alertID in the record meanwhile.
C38_Claim ==
  [][\A g \in Slots, c \in Comps :
       (removeStep(g) /\ calls'[g].comp = c /\ triggered(c)) =>
         [to |-> "pagerduty", op |-> "resolve", id |-> AliasOf(c)]
           \in calls'[g].sent]_vars

\* ------------------------------------------------------- probe claims
ran(kind) == probe.kind = kind /\ probe.run.call # "notrun"
withinBudget(r) == ~r.failed /\ r.latency <= LatencyBudgetMs
\* the sample history of the bucket has deviation: sigma > 0
deviates(b) == Cardinality({v \in DOMAIN b.Buckets : b.Buckets[v] > 0}) > 1

\* C14: testTopicLatency applies exactly one outcome per run, in strict
\* precedence: probe error -> ReportIncident; else out of order -> log only;
\* else over the budget -> ReportIncident; else outlier verdict (not within
\* 6 sigma, sigma > 0, mean > 0) -> log only; else ClearIncident.
C14_Precedence ==
  ran("pubsub") =>
    LET r == probe.run
        outlier == r.flagged /\ deviates(probe.bucket)
    IN /\ r.failed => r.call = "report"
       /\ (~r.failed /\ ~r.inOrder) => r.call = "none"
       /\ (~r.failed /\ r.inOrder /\ ~withinBudget(r)) => r.call = "report"
       /\ (withinBudget(r) /\ r.inOrder /\ outlier) => r.call = "none"
       /\ (withinBudget(r) /\ r.inOrder /\ ~outlier) => r.call = "clear"
       /\ r.call = "clear" => (withinBudget(r) /\ r.inOrder /\ ~outlier)
       /\ r.call = "report" => (r.failed \/ (r.inOrder /\ ~withinBudget(r)))

\* a sample within the budget that lies more than 6 sigma above the mean of
\* a history with deviation: the run only logs
C14_Witness ==
  /\ ran("pubsub") /\ withinBudget(probe.run) /\ probe.run.inOrder
  /\ probe.run.flagged /\ deviates(probe.bucket)
  /\ probe.run.call = "none"

\* C15: for every probe kind, a run that ends with an error or a timeout
\* results in a ReportIncident call, and the loop goes on to the next tick.
C15_Claim ==
  /\ [](\A kind \in ProbeKinds : (ran(kind) /\ probe.run.failed) => probe.run.call = "report")
  /\ [][probe.kind \in ProbeKinds => probe'.kind = probe.kind]_vars

\* C16: in the pub/sub and websocket probes a sample within the budget that
\* the outlier rule flags never leads to ReportIncident, whatever the
\* history of samples (constant ones, sigma = 0, included).
C16_Claim ==
  \A kind \in {"pubsub", "websocket"} :
    (ran(kind) /\ withinBudget(probe.run) /\ probe.run.flagged) => probe.run.call # "report"

\* ---------------------------------------------- publish/consume claims
ResultKinds == {"success", "send", "receive", "timeout"}
succeeded == pubsub.pc = "returned" /\ pubsub.result.kind = "success"
Expected == 0..(pubsub.n - 1)
receivedSet == {pubsub.received[k] : k \in DOMAIN pubsub.received}

\* C17: every invocation of PubSubLatency ends by returning exactly one
\* result, which is the computed success result, the error of the producer
\* or consumer task, or the timeout sentinel with Latency = 100 s, whatever
\* the broker delivers: no delivery takes the invocation to an end without a
\* result.
C17_Claim ==
  pubsub.pc # "none" =>
    /\ pubsub.pc \in Running \cup {"returned"}
    /\ pubsub.pc = "returned" <=> pubsub.result.kind \in ResultKinds
    /\ pubsub.result.kind \in ResultKinds \ {"success"} =>
         pubsub.result.Latency = failedLatency

\* C18: a success result is returned only after each of the N expected
\* payloads was received at least once, redeliveries and replays included,
\* and its latency is the truncated millisecond mean of the N per-message
\* latencies.
C18_Claim ==
  succeeded =>
    /\ Expected \subseteq receivedSet
    /\ pubsub.result.Latency =
         ((totalLatency(Expected, pubsub.sentPayloads) \div UnitsPerMs)
            \div pubsub.n) * UnitsPerMs

\* C19: in a success result InOrderDelivery is true exactly when the
\* consumer received the N expected payloads with strictly increasing
\* indices.
C19_Claim ==
  succeeded =>
    (pubsub.result.InOrderDelivery <=>
       /\ Len(pubsub.received) = pubsub.n
       /\ \A k \in 1..pubsub.n : pubsub.received[k] = k - 1)

\* C35: when the consumer task's Receive returned an error before
\* PubSubLatency returns, the call returns failedLatency with an error and
\* never a success result, for every interleaving of the consumer task, the
\* publishing loop and the select.
C35_Claim ==
  (pubsub.pc = "returned" /\ pubsub.receiveFailed) =>
    /\ pubsub.result.kind \in ResultKinds \ {"success"}
    /\ pubsub.result.Latency = failedLatency

\* C36: once PubSubLatency has returned nobody receives from errorChan or
\* completeChan any more, so a task that is blocked in a send then stays
\* blocked forever: after the return neither the consumer task nor a send
\* callback is blocked in a send on either channel.
C36_Claim ==
  pubsub.pc = "returned" =>
    /\ pubsub.consumer # "blocked"
    /\ pubsub.blocked = {}

\* ------------------------------------------------- client cache claims
\* the call of w returns because the producer or the consumer was not created
creationFailed(w) ==
  /\ clients.users[w].pc \in {"evict", "subscribe"}
  /\ clients'.users[w].pc = "idle"

\* C20: when producer or consumer creation fails for broker URL u, the
\* client cached for u is closed and the entry of u is gone when the call
\* returns, and a call for u never gets a closed client out of the cache.
C20_Claim ==
  /\ [][\A w \in Workers :
          creationFailed(w) =>
            /\ uriOf(w) \notin DOMAIN clients'.cache
            /\ uriOf(w) \in DOMAIN clients.cache =>
                 clients.cache[uriOf(w)] \in clients'.closed]_vars
  /\ [][\A w \in Workers :
          (clients.users[w].pc \in {"idle", "newclient"}
             /\ clients'.users[w].pc = "producer")
            => clients'.users[w].client \notin clients'.closed]_vars

\* a task is between the statements of one of its updates of the map
insideCacheUpdate(w) == clients.users[w].pc \in {"newclient", "evict"}
\* the clients built for pulsarURL that were not closed
kept(pulsarURL) ==
  {id \in 1..clients.made :
     clients.uri[id] = pulsarURL /\ id \notin clients.closed}

\* C21: the accesses to the client cache exclude each other, so no task
\* starts an access while another task is between the read and the write of
\* its own, and at most one client per broker URL is built and kept.
C21_Claim ==
  /\ \A v, w \in Workers :
       insideCacheUpdate(v) /\ insideCacheUpdate(w) => v = w
  /\ \A pulsarURL \in {uriOf(w) : w \in Workers} :
       Cardinality(kept(pulsarURL)) <= 1

\* the task holds a client it got from GetPulsarClient and works with it
holdsClient(w) == clients.users[w].pc \in {"producer", "subscribe", "exchange"}

\* C37: a client that a task holds and works with is not closed by a step of
\* another task: the eviction after a failed creation of a producer or a
\* consumer in one task leaves the client of a concurrent task for the same
\* broker URL open.
C37_Claim ==
  [][\A w \in Workers :
       (/\ holdsClient(w)
        /\ clients'.users[w] = clients.users[w]
        /\ clients.users[w].client \notin clients.closed)
         => clients.users[w].client \notin clients'.closed]_vars

\* ------------------------------------------------------- lock claims
\* the locks task t holds
holds(t) ==
  (IF locks.incidentTrackersLock.writer = t
      \/ t \in locks.incidentTrackersLock.readers
   THEN {"incidentTrackersLock"} ELSE {})
  \cup (IF locks.incidentsLock = t THEN {"incidentsLock"} ELSE {})
\* task t has an outbound request under way
requesting(t) == locks.tasks[t].pc \in {"preAlertPost", "createPost", "closePost"}

\* C22: no task holds incidentsLock or incidentTrackersLock while it makes
\* an outbound request (provider call or chat-webhook post), the pre-alert
\* post included.
C22_Claim ==
  locks.pc = "run" => \A t \in Tasks : requesting(t) => holds(t) = {}

\* ------------------------------------------------ partition probe claims
\* C23: completeChan is closed only after every consumer task has returned,
\* so no consumer task sends on the closed channel, in any interleaving of
\* the subscriptions, the receipts, the producer callbacks and the return.
C23_Claim ==
  partition.pc # "none" =>
    /\ \A i \in Partitions(partition) : partition.consumers[i] # "panic"
    /\ partition.closed =>
         \A i \in Partitions(partition) :
           partition.consumers[i] \in {"none", "done"}

returnedResult == partition.pc # "none" /\ partition.result.kind # "none"
\* every consumer task reported a match
allMatched ==
  \A i \in Partitions(partition) :
    partition.consumers[i] = "done" /\ partition.toSend[i] = matchSignal
\* the numbers the error was formatted with include both counters
carriesCounts ==
  \E i, j \in DOMAIN partition.result.args :
    /\ i # j
    /\ partition.result.args[i] = partition.receivedCounter
    /\ partition.result.args[j] = partition.successfulCounter

\* C24 as stated: success (nil error) is returned only if P consumer match
\* signals were received and the ticker case was not taken; in every other
\* case the error is non-nil and carries the received and successful counts.
C24_Original ==
  returnedResult =>
    IF partition.result.kind = "success"
    THEN ~partition.result.err /\ allMatched
    ELSE partition.result.err /\ carriesCounts

\* C24 amended: as stated, except that when the producer cannot be created
\* the error returned is the creation error, without counts.
C24_Amended ==
  returnedResult =>
    IF partition.result.kind = "success"
    THEN /\ ~partition.result.err
         /\ allMatched
         /\ Cardinality(partition.matches) = partition.P
    ELSE /\ partition.result.err
         /\ partition.result.kind # "producer" => carriesCounts
         /\ partition.result.kind = "producer" =>
              \A i \in Partitions(partition) : partition.consumers[i] = "none"

\* C24 witness: the probe of MaxPartitions partitions returned success
C24_Witness ==
  /\ partition.pc = "returned"
  /\ partition.P = MaxPartitions
  /\ partition.result.kind = "success"
  /\ partition.callbacks = {}

\* ------------------------------------------- partition topic check claims
\* the list request was answered 200 with a list that names the topic
listed ==
  /\ ~calc.list.transport
  /\ calc.list.status = 200
  /\ calc.list.body = "listed"
\* the list request failed or was answered with another status than 200
listFailed == calc.list.transport \/ calc.list.status # 200
\* the create PUT was answered with 204 or 409
createdOrConflict == ~calc.create.transport /\ calc.create.status \in {204, 409}

\* C25: VerifyPartitionTopic returns nil exactly when the topic is listed or
\* the create PUT was answered 204 or 409; a failed or non-200 list request,
\* or a create answered with another status, gives a non-nil error.  (Stated
\* for the calls in which the token supplier works.)
C25_Claim ==
  (calc.fn = "VerifyPartitionTopic" /\ calc.listToken /\ calc.createToken) =>
    /\ ~calc.err <=> (listed \/ (~listFailed /\ createdOrConflict))
    /\ listFailed => calc.err

\* ------------------------------------------------------ metric map claims
\* C26: for every interleaving of first-time updates the series of a name is
\* built and registered once, every update lands on the registered series,
\* and registration never panics.
C26_Claim ==
  metrics.pc = "run" =>
    /\ ~metrics.panicked
    /\ \A m \in DOMAIN metrics.built : metrics.built[m] <= 1
    /\ \A u \in metrics.updated : u[2] = metrics.registry[u[1]]

\* ------------------------------------------------ cluster health claims
\* the verdict of each workload kind by the stated rules
zookeeperVerdict(c) ==
  IF c.Zookeeper.Instances < 2 THEN TotalDown
  ELSE IF c.Zookeeper.Instances = 2 /\ c.Zookeeper.Replicas > 2
       THEN PartialReady
  ELSE OK
bookkeeperVerdict(c) ==
  IF c.Bookkeeper.Instances < 2 THEN TotalDown
  ELSE IF c.Bookkeeper.Instances # c.Bookkeeper.Replicas THEN PartialReady
  ELSE OK
brokerVerdict(c) ==
  IF c.Broker.Instances + c.BrokerSts.Instances = 0 THEN TotalDown
  ELSE IF c.Broker.Instances + c.BrokerSts.Instances
            < c.Broker.Replicas + c.BrokerSts.Replicas
       THEN PartialReady
  ELSE OK
proxyVerdict(c) ==
  IF c.Proxy.Replicas > 0 /\ c.Proxy.Instances = 0 THEN TotalDown
  ELSE IF c.Proxy.Instances < c.Proxy.Replicas THEN PartialReady
  ELSE OK
\* TotalDown > PartialReady > OK
worst(verdicts) ==
  IF TotalDown \in verdicts THEN TotalDown
  ELSE IF PartialReady \in verdicts THEN PartialReady
  ELSE OK

\* C27: for all declared and ready replica counts EvalHealth returns the
\* worst of the per-kind verdicts of the stated rules.
C27_Claim ==
  calc.fn = "EvalHealth" =>
    calc.Status = worst({zookeeperVerdict(calc.c), bookkeeperVerdict(calc.c),
                         brokerVerdict(calc.c), proxyVerdict(calc.c)})

\* ------------------------------------------------ message payload claims
\* the larger of two numbers
larger(a, b) == IF a > b THEN a ELSE b

\* C28: with N >= 1, AllMsgPayloads(P, sizes, N) returns exactly
\* max(N, |sizes|) payloads and GetMessageID(P, payload i) = i for each of
\* them, whatever the prefix P.
C28_Claim ==
  (calc.fn = "AllMsgPayloads" /\ calc.numOfMsg >= 1) =>
    /\ Len(calc.result.payloads) = larger(calc.numOfMsg, Len(calc.payloadSizes))
    /\ \A k \in 1..Len(calc.result.payloads) :
         /\ ~GetMessageIDPanics(calc.prefix, splitParts(calc.result.payloads[k]))
         /\ GetMessageID(calc.prefix, splitParts(calc.result.payloads[k])) = k - 1

\* ------------------------------------------------ outlier bucket claims
\* the last run pushed its latency: probe.bucket holds it, and
\* probe.run.flagged is the negation of the verdict Push returned
pushedSample ==
  \/ ran("pubsub") /\ withinBudget(probe.run) /\ probe.run.inOrder
  \/ ran("websocket") /\ withinBudget(probe.run)
\* n * (x - mean) for the sample x pushed last, n samples in the bucket
distance == counter(probe.bucket) * probe.run.latency - bucketSum(probe.bucket)
\* n^3 * sigma^2
spread ==
  deviationSum(DOMAIN probe.bucket.Buckets, probe.bucket.Buckets,
               counter(probe.bucket),
               bucketSum(probe.bucket), TRUE)
\* x - mean < 6 * sigma, and x - mean > 6 * sigma
belowSixSigma ==
  \/ distance < 0
  \/ distance * distance * counter(probe.bucket) < 36 * spread
aboveSixSigma ==
  /\ distance >= 0
  /\ distance * distance * counter(probe.bucket) > 36 * spread

correlationStep ==
  \/ last.op = "report" /\ ~last.tracked
  \/ last.op = "correlate"

C31_Claim ==
  (lastIsTrack /\ evalCfg.Ceiling > 0) =>
    /\ last.rc => ~last.verbose
    /\ ~last.rc => (last.verbose <=> lastTracker.Counters + 1 >= evalCfg.Ceiling)

\* ------------------------------------------------ downtime gauge claims
\* C32: with downtime tracking enabled for the topic, every pub/sub probe
\* run that ends in a probe error sets the downtime gauge to the configured
\* interval, and every run that ends in ClearIncident sets it to 0.
C32_Claim ==
  (ran("pubsub") /\ isDowntimeReporting(probe.topicCfg)) =>
    /\ probe.run.failed => probe.wrote = {probe.topicCfg.IntervalSeconds}
    /\ probe.run.call = "clear" => probe.wrote = {0}

\* ------------------------------------------------ payload size claims
\* the byte count of the size token payload i is generated from (no token
\* at all counts as the token "0")
tokenBytes(i) ==
  IF Len(calc.payloadSizes) = 0 THEN 0
  ELSE NumOfBytes(calc.payloadSizes[IF i < Len(calc.payloadSizes) THEN i + 1
                                    ELSE Len(calc.payloadSizes)])
\* the length of "<prefix>-<i>-"
indexedPrefixLen(i) == Len(calc.prefix) + 1 + Len(Itoa(i)) + 1

\* C33: the length of payload i is the byte count of size token
\* min(i, |sizes| - 1) when that is at least the length of "<prefix>-<i>-",
\* and the length of "<prefix>-<i>-" otherwise; the second value
\* AllMsgPayloads returns is the maximum length over the payloads returned.
C33_Claim ==
  calc.fn = "AllMsgPayloads" =>
    LET payloads == calc.result.payloads
    IN /\ \A k \in 1..Len(payloads) :
            Len(payloads[k]) = IF tokenBytes(k - 1) >= indexedPrefixLen(k - 1)
                               THEN tokenBytes(k - 1)
                               ELSE indexedPrefixLen(k - 1)
       /\ \E k \in 1..Len(payloads) :
            calc.result.maxPayloadSize = Len(payloads[k])
       /\ \A k \in 1..Len(payloads) :
            calc.result.maxPayloadSize >= Len(payloads[k])

\* ------------------------------------------------ running mean claims
\* C34: after any sequence of Push and Add calls on one bucket, the mean
\* Push returns (Sum / counter) is the arithmetic mean of all samples held,
\* that is Sum equals the sum of Buckets, and sigma is the population
\* standard deviation of those samples around that mean.
C34_Claim ==
  pushedSample => probe.bucket.Sum = bucketSum(probe.bucket)


\* ------------------------------------------------ silence window claims
\* C39: in non-verbose mode a call of VerboseAlert with a window S >= 0
\* notifies exactly when no notification was sent for the component within
\* the preceding S; suppressed calls do not extend the silence.
C39_Claim ==
  (calc.fn = "VerboseAlert" /\ ~calc.Verbose) =>
    \A r \in calc.call :
      r.silenceWindow >= 0 =>
        (r.alerted <=> \A v \in r.sentBefore : r.at - v > r.silenceWindow)


\* ------------------------------------------------ synchronized map claims
\* a method of task t has its result and is about to unlock and return
returning(t, op) == mapTask(t).pc = "unlock" /\ mapTask(t).op = op

\* C40: for every interleaving of concurrent calls the process goes on and
\* every key put is retained with the last value put under it; Size returns
\* the number of distinct keys put, Get the last value put for its key or
\* nil for an absent key, Put the value it stored; Replace(k, v) reads the
\* value stored for k just before its own write, returns it and leaves v
\* stored.
C40_SyncMap ==
  calc.fn = "SyncMap" =>
    /\ ~calc.fatal
    /\ calc.data = calc.written
    /\ calc.done \subseteq DOMAIN calc.data
    /\ \A t \in Tasks :
         /\ returning(t, "Size") =>
              mapTask(t).size = Cardinality(DOMAIN calc.written)
         /\ returning(t, "Get") =>
              mapTask(t).ret = mapValue(calc.written, mapTask(t).key)
         /\ returning(t, "Put") => mapTask(t).ret = mapTask(t).value
         /\ (mapTask(t).pc = "read" /\ mapTask(t).op = "Replace") =>
              mapTask(t).ret = mapValue(calc.written, mapTask(t).key)
         /\ returning(t, "Replace") =>
              mapValue(calc.data, mapTask(t).key) = mapTask(t).value

\* a Replace that found the value another task had put under its key is
\* about to return it, both keys are held and another task waits for the
\* lock to put under the same key
C40_Witness ==
  /\ calc.fn = "SyncMap"
  /\ DOMAIN calc.data = MapKeys
  /\ \E t, u \in Tasks :
       /\ t # u
       /\ returning(t, "Replace")
       /\ mapTask(t).ret \in MapValues \ {mapTask(t).value}
       /\ mapTask(u).pc = "lock"
       /\ mapTask(u).op = "Put"
       /\ mapTask(u).key = mapTask(t).key

====
